---- MODULE Spec2Model ----
(***************************************************************************)
(* Verification model of the storytelling document engine:                 *)
(*   - the read session of RLMReader (tool handlers, coverage gate),       *)
(*   - the paragraph chunker splitIntoParagraphs / splitLongText,          *)
(*   - the segment splitter DeepReader.splitChapterIntoSegments,           *)
(*   - the chapter pass DeepReader.processChapterWithAgent,                *)
(*   - the fragment merge RLMReader.getCollectedChapters,                  *)
(*   - the session set-up DeepReader.initSession,                          *)
(*   - two RLMReader instances that differ in the checkpoint setting,      *)
(*   - the full deep read DeepReader.read and its output files,            *)
(*   - the chapter-merge call RLMReader.mergeChaptersWithLLM,              *)
(*   - the rejection guidance of the done handler,                         *)
(*   - the long-text synthesis synthesizeLongText of the TTS route,        *)
(*   - concurrent init requests and their console.log interception,        *)
(*   - chapter and episode requests on one stored session.                 *)
(* Each part has its own specification over the shared variable list; the  *)
(* variables of the other parts stay at their initial values.              *)
(***************************************************************************)
EXTENDS Integers, Sequences, FiniteSets, TLC

VARIABLES
    \* ---- RLMReader read session ----
    rlmPc,            \* "idle" | "running" | "awaiting" | "returned"
    totalChunks,      \* this.chunks.length
    readChunksSet,    \* this.readChunksSet
    outputLen,        \* this.output.length
    minCoveragePct,   \* this.config.task.minCoverage, in percent
    pendingIndexes,   \* chunkIndexes of the spawn_reader call being awaited
    lastCall,         \* the most recent tool call and what it returned (for a
                      \* delegate that answered, the answer as well)
    rlmResult,        \* what read() returned
    collectedChapterSegments, \* this.collectedChapterSegments
    orchestration,    \* what read() has done after splitting the document
    \* ---- splitIntoParagraphs ----
    spPc,             \* "input" | "done"
    spContent,        \* content argument (sequence of characters)
    spMaxChars,       \* maxChars argument
    spParagraphs,     \* returned array
    \* ---- splitChapterIntoSegments ----
    segPc,            \* "loop" | "done"
    segContent,       \* chapter.content (sequence of characters)
    segPos,           \* pos
    segments,         \* segments array built so far
    \* ---- processChapterWithAgent ----
    chPc,             \* "idle" | "dispatching" | "gapfill" | "returned" | "finished" | "thrown"
    segmentCount,     \* this.segments.length
    processedSegments,\* this.processedSegments
    segmentOutputs,   \* this.segmentOutputs, a Map in insertion order
    chapterOutput,    \* this.output after assembly
    missedSegments,   \* the gap-fill loop's remaining missed segments
    gapFailed,        \* segment ids whose gap-fill rewrite failed (logged, line 705)
    lastRecorded,     \* per id, the most recent rewrite handleSpawnWriter recorded
    rewroteStored,    \* some rewrite replaced an entry already in the store
    loopEnd,          \* how agent.invoke ended: "resolved" | "recursion_limit" | "error"
    chLastCall,       \* the most recent tool call of the dispatch loop
    writerCall,       \* the handleSpawnWriter call whose writerLLM.invoke is awaited
    chapterDoneEvents,\* chapter_done events processOneChapter emitted in this pass
    segmentEventAfterDone, \* a segment event was emitted after chapter_done
    chPhases,         \* the phases this chapter pass has entered, in order
    segmentStarted,   \* segmentId of the most recent segment_start event (-1: none)
    segmentDoneEvent, \* the most recent segment_done event: id, title, text
    \* ---- getCollectedChapters ----
    fragPc,           \* "input" | "done"
    fragCollected,    \* this.collectedChapterSegments at the call
    fragChapters,     \* returned array
    \* ---- initSession (POST /api/read/init) ----
    sessPc,           \* "idle" | "read" | "mapped" | "returned" | "stored" | "failed"
    docChunks,        \* lengths of the chunks splitIntoParagraphs(content, 2000) returns
    rlmChapters,      \* result.chapters || []
    sessionChapters,  \* this.chapters
    sessError,        \* "none" | "type_error" | "no_chapters"
    sessionReturned,  \* initSession returned a session object
    sessionStored,    \* setSession(session) ran
    outputFileCreated,\* fs.writeFileSync(outputPath, header) ran
    \* ---- two RLMReader instances given the same document and tool calls ----
    twinPc,           \* "idle" | "running" | "returned"
    twinLastCall,     \* the tool call both instances executed last
    runs,             \* per instance: checkpoint configuration and session state
    \* ---- DeepReader.read (POST /api/read, mode deep) ----
    deepPc,           \* "idle" | "loop" | "chapter" | "done" | "thrown"
    deepChapterCount, \* this.chapters.length
    deepIndex,        \* i of the chapter loop, counted from 1
    outputStream,     \* lines written to this.outputStream (the Markdown file)
    deepOutput,       \* this.output, as lines
    ttsFile,          \* lines written to the TTS text file
    deepProcessed,    \* chapters whose processChapterWithAgent returned, with its text
    \* ---- mergeChaptersWithLLM ----
    mergePc,          \* "input" | "done"
    mergeRaw,         \* rawChapters argument
    mergeResponse,    \* what the merge call came to, if one was made
    mergeResult,      \* returned array
    \* ---- done handler, rejection for coverage ----
    guidePc,          \* "input" | "done"
    guideTotal,       \* this.chunks.length
    guideCovered,     \* this.readChunksSet
    guideRanges,      \* ranges
    guideMessage,     \* rangeHint: the ranges shown and the count that follows them
    \* ---- synthesizeLongText (POST /api/tts/episode) ----
    ttsPc,            \* "idle" | "attempt" | "waiting" | "gap" | "done" | "thrown"
    ttsSegments,      \* segments.length (1: a text that is not split)
    ttsIndex,         \* i + 1: the segment being synthesized
    ttsRetries,       \* retries
    ttsBuffers,       \* buffers: per buffer, the segment it is the audio of
    ttsAttempts,      \* per segment, the synthesizeAudio calls made for it
    ttsWaits,         \* the waits before a retry: segment, attempt that failed, seconds
    ttsError,         \* the error synthesizeLongText threw
    \* ---- concurrent POST /api/read/init requests ----
    initPc,           \* position of each init request: none, formData, parsing, initSession, closed
    originalLog,      \* each request's const originalLog (0: the original function, i: request i's interceptor)
    consoleLog,       \* the global console.log (same encoding)
    \* ---- requests on one stored session (POST /api/read/chapter, POST /api/tts/episode) ----
    sessionChapterCount,\* session.chapters.length (0: no session stored yet)
    storedSession,    \* the session JSON file: completedChapters, chapterSummaries (count), ttsResults (keys)
    requests,         \* per request: pc, kind, chapterIndex or episode key, and the session object it holds
    outputFile,       \* the Markdown output file: the chapter index of each appended block
    ttsOutput,        \* the TTS-cleaned file: whether it was written, and from which file content
    chapterDone,      \* requests whose processOneChapter emitted chapter_done
    storeWrites       \* updateSession calls made so far

rlmVars == <<rlmPc, totalChunks, readChunksSet, outputLen, minCoveragePct,
             pendingIndexes, lastCall, rlmResult, collectedChapterSegments, orchestration>>
spVars  == <<spPc, spContent, spMaxChars, spParagraphs>>
segVars == <<segPc, segContent, segPos, segments>>
chVars  == <<chPc, segmentCount, processedSegments, segmentOutputs, chapterOutput,
             missedSegments, gapFailed, lastRecorded, rewroteStored, loopEnd, chLastCall,
             writerCall, chapterDoneEvents, segmentEventAfterDone,
             chPhases, segmentStarted, segmentDoneEvent>>
fragVars == <<fragPc, fragCollected, fragChapters>>
sessVars == <<sessPc, docChunks, rlmChapters, sessionChapters, sessError,
              sessionReturned, sessionStored, outputFileCreated>>
twinVars == <<twinPc, twinLastCall, runs>>
deepVars == <<deepPc, deepChapterCount, deepIndex, outputStream, deepOutput, ttsFile,
              deepProcessed>>
mergeVars == <<mergePc, mergeRaw, mergeResponse, mergeResult>>
guideVars == <<guidePc, guideTotal, guideCovered, guideRanges, guideMessage>>
ttsVars == <<ttsPc, ttsSegments, ttsIndex, ttsRetries, ttsBuffers, ttsAttempts, ttsWaits, ttsError>>
logVars == <<initPc, originalLog, consoleLog>>
storeVars == <<sessionChapterCount, storedSession, requests, outputFile, ttsOutput, chapterDone, storeWrites>>
vars    == <<rlmVars, spVars, segVars, chVars, fragVars, sessVars, twinVars, deepVars, mergeVars, guideVars, ttsVars, logVars, storeVars>>

(***************************************************************************)
(* Bounds of the model.                                                    *)
(***************************************************************************)
MaxChunks == 11
MaxSpan == 3

(***************************************************************************)
(* Initial values of each part (the state after construction).             *)
(***************************************************************************)
NoCall == [tool |-> "none", result |-> "none"]
NoResult == [kind |-> "none", metadata |-> FALSE, warning |-> FALSE, contentLen |-> 0,
             totalChunks |-> 0, chapters |-> <<>>]

\* read() before line 731: the checkpoint store not consulted, no tool
\* created, the agent not invoked. agentEnd is how agent.invoke ended:
\* "none" | "resolved" | "recursion_limit" | "error".
NoOrchestration ==
    [checkpoint |-> FALSE, tools |-> FALSE, invoked |-> FALSE, agentEnd |-> "none"]

RlmIdle ==
    /\ rlmPc = "idle"
    /\ totalChunks = 0
    /\ readChunksSet = {}
    /\ outputLen = 0
    /\ pendingIndexes = <<>>
    /\ lastCall = NoCall
    /\ rlmResult = NoResult
    /\ collectedChapterSegments = <<>>
    /\ orchestration = NoOrchestration

SpIdle ==
    /\ spPc = "done"
    /\ spContent = <<>>
    /\ spMaxChars = 1
    /\ spParagraphs = <<>>

SegIdle ==
    /\ segPc = "done"
    /\ segContent = <<>>
    /\ segPos = 0
    /\ segments = <<>>

\* A tool call of the dispatch loop other than done, which reports nothing
\* about completion.
ChCall(tool) == [tool |-> tool, canFinish |-> FALSE, remaining |-> 0]

\* No handleSpawnWriter call is awaited. `from` is the caller of a pending
\* call: "dispatch" (the spawn_writer tool) or "gapfill".
NoWriterCall == [from |-> "none", id |-> 0, title |-> <<"none", 0>>]

NoSegmentDone == [id |-> -1, title |-> <<"none", 0>>, text |-> "none"]

ChIdle ==
    /\ chPc = "idle"
    /\ segmentCount = 0
    /\ processedSegments = {}
    /\ segmentOutputs = <<>>
    /\ chapterOutput = <<>>
    /\ missedSegments = <<>>
    /\ gapFailed = {}
    /\ lastRecorded = <<>>
    /\ rewroteStored = FALSE
    /\ loopEnd = "none"
    /\ chLastCall = ChCall("none")
    /\ writerCall = NoWriterCall
    /\ chapterDoneEvents = 0
    /\ segmentEventAfterDone = FALSE
    /\ chPhases = <<>>
    /\ segmentStarted = -1
    /\ segmentDoneEvent = NoSegmentDone

FragIdle ==
    /\ fragPc = "done"
    /\ fragCollected = <<>>
    /\ fragChapters = <<>>

SessIdle ==
    /\ sessPc = "idle"
    /\ docChunks = <<>>
    /\ rlmChapters = <<>>
    /\ sessionChapters = <<>>
    /\ sessError = "none"
    /\ sessionReturned = FALSE
    /\ sessionStored = FALSE
    /\ outputFileCreated = FALSE

\* An RLMReader instance before its first read. `store` is what the
\* checkpoint store holds for the session identity when read() begins:
\* "none", "found" (prior history), or "failed" (the lookup throws).
\* `leftover` records that the covered set was not empty when read() began.
IdleRun(enableCheckpoint) ==
    [enableCheckpoint |-> enableCheckpoint, store |-> "none", hasHistory |-> FALSE,
     leftover |-> FALSE, readChunksSet |-> {}, outputLen |-> 0, verdict |-> "none"]

TwinIdle ==
    /\ twinPc = "idle"
    /\ twinLastCall = "none"
    /\ runs = <<IdleRun(FALSE), IdleRun(FALSE)>>

DeepIdle ==
    /\ deepPc = "idle"
    /\ deepChapterCount = 0
    /\ deepIndex = 0
    /\ outputStream = <<>>
    /\ deepOutput = <<>>
    /\ ttsFile = <<>>
    /\ deepProcessed = <<>>

MergeIdle ==
    /\ mergePc = "done"
    /\ mergeRaw = <<>>
    /\ mergeResponse = [kind |-> "none", chapters |-> <<>>]
    /\ mergeResult = <<>>

GuideIdle ==
    /\ guidePc = "done"
    /\ guideTotal = 0
    /\ guideCovered = {}
    /\ guideRanges = <<>>
    /\ guideMessage = [shown |-> <<>>, count |-> 0]

TtsIdle ==
    /\ ttsPc = "idle"
    /\ ttsSegments = 0
    /\ ttsIndex = 0
    /\ ttsRetries = 0
    /\ ttsBuffers = <<>>
    /\ ttsAttempts = <<>>
    /\ ttsWaits = <<>>
    /\ ttsError = "none"

\* Init requests that may be in flight together.
MaxInitRequests == 3

\* console.log before any request replaced it.
OriginalLog == 0

LogIdle ==
    /\ initPc = [i \in 1..MaxInitRequests |-> "none"]
    /\ originalLog = [i \in 1..MaxInitRequests |-> OriginalLog]
    /\ consoleLog = OriginalLog

\* Requests on the stored session that may be in flight together.
MaxStoreRequests == 3

\* initSession, lines 777 and 783: chapterSummaries: [], completedChapters: [];
\* ttsResults is absent until the first save.
EmptySession == [completedChapters |-> <<>>, chapterSummaries |-> 0, ttsResults |-> {}]
NoRequest == [pc |-> "none", kind |-> "none", arg |-> -1, session |-> EmptySession]

StoreIdle ==
    /\ sessionChapterCount = 0
    /\ storedSession = EmptySession
    /\ requests = [i \in 1..MaxStoreRequests |-> NoRequest]
    /\ outputFile = <<>>
    /\ ttsOutput = [generated |-> FALSE, from |-> <<>>]
    /\ chapterDone = {}
    /\ storeWrites = 0

(***************************************************************************)
(* Chapter fragments: what parseSubAgentOutput collects from the answers   *)
(* of the delegates and getCollectedChapters merges.                       *)
(* A fragment is [chunkStart, chunkEnd, title, summary, parts]; a summary  *)
(* is a sequence of characters. `parts` is history only: the positions, in *)
(* collectedChapterSegments, of the fragments an entry stands for. No      *)
(* program decision reads it.                                              *)
(***************************************************************************)
MaxFragments == 4

\* "；", the separator getCollectedChapters and consolidateChapters put
\* between summaries.
SEP == "SEP"

\* Line 538 (merged.length > 30) and line 564 (currentSize < 10,
\* nextSize < 5), scaled down with their order kept.
MergedCeiling == 3
MinChapterSpan == 3
MinNextSpan == 2

\* A maximum that takes its second argument.
MaxOfSecond(a, b) == b

MaxOf(a, b) == IF a >= b THEN a ELSE b
MinOf(a, b) == IF a <= b THEN a ELSE b

\* String.prototype.includes on sequences of characters.
Includes(hay, needle) ==
    \E i \in 0..(Len(hay) - Len(needle)) : SubSeq(hay, i + 1, i + Len(needle)) = needle

\* A filter that does not ask for a title.
IsCollectableUntitled(ch) == ch.chunkStart # 0 /\ ch.chunkEnd # 0

\* Line 492: ch && ch.chunkStart && ch.chunkEnd && ch.title (0 and '' are
\* falsy; a missing field is undefined, falsy as well, and is 0 or "" here).
IsCollectable(ch) == ch.chunkStart # 0 /\ ch.chunkEnd # 0 /\ ch.title # ""

\* Lines 491-500: the valid entries of a parsed chapters array are pushed.
RECURSIVE PushChapters(_, _)
PushChapters(collected, chapters) ==
    IF chapters = <<>> THEN collected
    ELSE LET ch == Head(chapters)
             next == IF IsCollectable(ch)
                     THEN Append(collected,
                                 [chunkStart |-> ch.chunkStart, chunkEnd |-> ch.chunkEnd,
                                  title |-> ch.title, summary |-> ch.summary,
                                  parts |-> {Len(collected) + 1}])
                     ELSE collected
         IN  PushChapters(next, Tail(chapters))

\* parseSubAgentOutput, lines 481-509. An answer either has no chapters
\* block ("none"), a block that does not parse ("malformed"), a block that
\* parses to something else than an array ("not_array"), or a parsed array
\* ("chapters").
ParseSubAgentOutput(collected, answer) ==
    IF answer.kind = "chapters" THEN PushChapters(collected, answer.chapters) ELSE collected

\* A spawnReader that parses whatever came back, failure or not.
SpawnReaderCollectedAlways(collected, outcome, answer) ==
    ParseSubAgentOutput(collected, answer)

\* spawnReader, lines 462-475: only an answer is parsed; the catch returns
\* the reader-error message.
SpawnReaderCollected(collected, outcome, answer) ==
    IF outcome = "answer" THEN ParseSubAgentOutput(collected, answer) ELSE collected

\* Line 520: [...segments].sort((a, b) => a.chunkStart - b.chunkStart); the
\* sort is stable.
RECURSIVE InsertByStart(_, _)
InsertByStart(sorted, seg) ==
    IF sorted = <<>> THEN <<seg>>
    ELSE IF seg.chunkStart < Head(sorted).chunkStart THEN <<seg>> \o sorted
         ELSE <<Head(sorted)>> \o InsertByStart(Tail(sorted), seg)

RECURSIVE SortByStart(_)
SortByStart(segs) ==
    IF segs = <<>> THEN <<>>
    ELSE InsertByStart(SortByStart(SubSeq(segs, 1, Len(segs) - 1)), segs[Len(segs)])

\* Lines 529-531.
MergeSummary(lastSummary, segSummary) ==
    IF segSummary # <<>> /\ ~Includes(lastSummary, segSummary)
    THEN IF lastSummary # <<>> THEN lastSummary \o <<SEP>> \o segSummary ELSE segSummary
    ELSE lastSummary

\* A merge test that ignores the titles.
CanMergeAnyTitle(last, seg) == seg.chunkStart <= last.chunkEnd + 1

\* Line 526: last.title === seg.title && seg.chunkStart <= last.chunkEnd + 1
CanMerge(last, seg) == last.title = seg.title /\ seg.chunkStart <= last.chunkEnd + 1

\* Lines 524-535: one iteration of the merge loop.
MergeFragment(merged, seg) ==
    IF merged # <<>> /\ CanMerge(merged[Len(merged)], seg)
    THEN LET last == merged[Len(merged)]
         IN  [merged EXCEPT ![Len(merged)] =
                 [last EXCEPT !.chunkEnd = MaxOf(last.chunkEnd, seg.chunkEnd),
                              !.summary = MergeSummary(last.summary, seg.summary),
                              !.parts = last.parts \cup seg.parts]]
    ELSE Append(merged, seg)

RECURSIVE MergeSorted(_, _)
MergeSorted(merged, sorted) ==
    IF sorted = <<>> THEN merged
    ELSE MergeSorted(MergeFragment(merged, Head(sorted)), Tail(sorted))

\* A test that looks at the next chapter only.
MergesForwardOnSmallNext(currentSize, nextSize) == nextSize < MinNextSpan

\* Line 564: currentSize < 10 || nextSize < 5
MergesForward(currentSize, nextSize) == currentSize < MinChapterSpan \/ nextSize < MinNextSpan

\* consolidateChapters, lines 554-572: the loop, with `current` set.
RECURSIVE ConsolidateFrom(_, _, _)
ConsolidateFrom(result, current, rest) ==
    IF rest = <<>> THEN Append(result, current)
    ELSE LET ch == Head(rest)
             currentSize == current.chunkEnd - current.chunkStart + 1
             nextSize == ch.chunkEnd - ch.chunkStart + 1
         IN  IF MergesForward(currentSize, nextSize)
             THEN ConsolidateFrom(result,
                      [current EXCEPT
                          !.chunkEnd = ch.chunkEnd,
                          !.title = IF currentSize >= nextSize THEN current.title ELSE ch.title,
                          !.summary = current.summary \o <<SEP>> \o ch.summary,
                          !.parts = current.parts \cup ch.parts],
                      Tail(rest))
             ELSE ConsolidateFrom(Append(result, current), ch, Tail(rest))

\* consolidateChapters, lines 548-579.
consolidateChapters(chapters) ==
    IF chapters = <<>> THEN <<>>
    ELSE ConsolidateFrom(<<>>, Head(chapters), Tail(chapters))

\* getCollectedChapters, lines 514-543.
getCollectedChapters(collected) ==
    LET merged == MergeSorted(<<>>, SortByStart(collected))
    IN  IF Len(merged) > MergedCeiling THEN consolidateChapters(merged) ELSE merged

(***************************************************************************)
(* RLMReader: the read session.                                            *)
(***************************************************************************)
\* task.minCoverage of the tasks the repository configures: the default 0.8
\* and TASK_PINGSHU's 0.1.
MinCoverageChoices == {80, 10}

\* Minimum length of the output buffer done() accepts.
MinOutputLen == 100

\* Chunk counts a document may split into: none, few, and both sides of the
\* "totalChunks > 10" test.
TotalChunkChoices == {0, 1, 10, 11, MaxChunks}

\* Lengths of the text the agent passes to update_output.
OutputLenChoices == {0, MinOutputLen - 1, MinOutputLen}

\* chunkIndexes arrays the agent passes to spawn_reader: the empty array,
\* runs of MaxSpan consecutive numbers, including numbers that name no chunk
\* (0, and numbers beyond the last chunk), and an array that repeats chunk 1
\* and ends with a negative number.
IndexLists(n) ==
    { [i \in 1..len |-> lo + i - 1] :
        lo \in {0} \cup { l \in 1..(n + 1) : (l - 1) % MaxSpan = 0 }, len \in {0, MaxSpan} }
    \cup { [i \in 1..MaxSpan |-> IF i = MaxSpan THEN -1 ELSE 1] }

\* index arguments the agent passes to read_chunk: the first chunks and
\* numbers that name no chunk.
ReadIndexChoices(n) == {-1, 0, 1, 2, n + 1}

Range(s) == { s[i] : i \in DOMAIN s }

\* A lookup that finds a chunk for every index.
ChunkExistsAlways(index) == TRUE

\* this.chunks.find(c => c.index === index): chunk indices are 1..length.
ChunkExists(index) == index \in 1..totalChunks

\* A readChunk that assigns the set instead of adding to it.
ReadChunkCoveredAssign(covered, index) ==
    IF ChunkExists(index) THEN {index} ELSE covered

\* RLMReader.readChunk: the covered set after reading `index`.
ReadChunkCovered(covered, index) ==
    IF ChunkExists(index) THEN covered \cup {index} ELSE covered

\* A spawnReader whose loop stops one short of the last index.
SpawnReaderCoveredSkipLast(covered, indexes) ==
    covered \cup { indexes[i] : i \in { j \in 1..(Len(indexes) - 1) : ChunkExists(indexes[j]) } }

\* RLMReader.spawnReader, lines 438-441: readChunk on every index in order.
RECURSIVE SpawnReaderCovered(_, _)
SpawnReaderCovered(covered, indexes) ==
    IF indexes = <<>> THEN covered
    ELSE SpawnReaderCovered(ReadChunkCovered(covered, Head(indexes)), Tail(indexes))

\* A done handler whose coverage test also applies to 10 chunks.
DoneVerdictFromTen(total, readCount, pct, outLen) ==
    IF total >= 10 /\ readCount * 100 < total * pct
    THEN "reject_coverage"
    ELSE IF outLen = 0 \/ outLen < MinOutputLen
         THEN "reject_output"
         ELSE "accept"

\* The done tool handler: the verdict for the current counts.
DoneVerdict(total, readCount, pct, outLen) ==
    IF total > 10 /\ readCount * 100 < total * pct
    THEN "reject_coverage"
    ELSE IF outLen = 0 \/ outLen < MinOutputLen
         THEN "reject_output"
         ELSE "accept"

\* Fragments a delegate's answer may carry in the read session.
MaxSessionFragments == 2

Fragment(start, end, title, summary) ==
    [chunkStart |-> start, chunkEnd |-> end, title |-> title, summary |-> summary]

\* Answers of a delegate: without a chapters block, with a block that does
\* not parse, with a block that is no array, with one chapter, with a
\* chapter the filter of line 492 drops, with a chapter among entries that
\* lack chunkEnd or title.
AnswerChoices ==
    { [kind |-> "none", chapters |-> <<>>],
      [kind |-> "malformed", chapters |-> <<>>],
      [kind |-> "not_array", chapters |-> <<>>],
      [kind |-> "chapters", chapters |-> << Fragment(2, 0, "A", <<"p">>),
                                            Fragment(3, 3, "B", <<>>),
                                            Fragment(3, 3, "", <<>>) >>],
      [kind |-> "chapters", chapters |-> << Fragment(1, 1, "A", <<"p">>) >>],
      [kind |-> "chapters", chapters |-> << Fragment(3, 3, "B", <<>>) >>],
      [kind |-> "chapters", chapters |-> << Fragment(0, 2, "A", <<"p">>) >>] }

\* rawChapters.length > 10 (lines 852, 886, 594), scaled down below
\* MergedCeiling as 10 is below 30.
LlmMergeAbove == 1

MergedEntry(start, end, title) ==
    [startChunk |-> start, endChunk |-> end, title |-> title, summary |-> <<>>]

\* Chapter lists in the JSON the merge call's model answers with (the
\* format asked for at lines 603-612): one chapter over the document, two
\* chapters out of order and beyond the last chunk, two chapters apart.
LlmChapterLists(total) ==
    { << MergedEntry(1, total, "A") >>,
      << MergedEntry(2, total + 1, "B"), MergedEntry(1, 1, "A") >>,
      << MergedEntry(1, 1, "A"), MergedEntry(3, 3, "B") >> }

\* What the merge call comes to, lines 614-651: it times out or fails; the
\* answer has no JSON object, one that does not parse, one whose chapters
\* value is no array, an array with a null entry, or an array of chapters
\* (the empty one included).
MergeResponses(total) ==
    { [kind |-> k, chapters |-> <<>>] :
          k \in {"timeout", "error", "no_json", "bad_json", "not_array", "null_entry"} }
    \cup { [kind |-> "list", chapters |-> l] : l \in LlmChapterLists(total) \cup {<<>>} }

\* No merge call was made.
NoMergeCall == [kind |-> "none", chapters |-> <<>>]

\* Lines 653-658: the entries of the answer as chapters; they stand for no
\* particular fragment.
MapMerged(chapters) ==
    [i \in 1..Len(chapters) |->
        [chunkStart |-> chapters[i].startChunk, chunkEnd |-> chapters[i].endChunk,
         title |-> chapters[i].title, summary |-> chapters[i].summary, parts |-> {}]]

\* A validation that takes the empty array as well.
MergeResponseUsableEmpty(response) == response.kind = "list"

\* Lines 626-647: the answer is used when its JSON parses and its chapters
\* value is a non-empty array.
MergeResponseUsable(response) == response.kind = "list" /\ response.chapters # <<>>

\* mergeChaptersWithLLM, lines 588-663. No call is made for a list of at
\* most LlmMergeAbove chapters; a call that fails, an answer that is not
\* used and a TypeError on a null entry (caught at line 659) return the
\* list as it came.
mergeChaptersWithLLM(rawChapters, response) ==
    IF Len(rawChapters) <= LlmMergeAbove THEN rawChapters
    ELSE IF MergeResponseUsable(response) THEN MapMerged(response.chapters)
    ELSE rawChapters

\* Lines 594-597 and 614: the response of the merge call, if one was made.
MergeCall(rawChapters, response) ==
    IF Len(rawChapters) <= LlmMergeAbove THEN NoMergeCall ELSE response

\* A read() without the empty-document test.
IsEmptyDocumentNever(n) == FALSE

\* Line 721: this.chunks.length === 0
IsEmptyDocument(n) == n = 0

\* read(), lines 696-840: reset, split, the empty-document return; otherwise
\* the checkpoint lookup, the tools, and agent.invoke.
ReadStart(n) ==
    /\ rlmPc \in {"idle", "returned"}
    /\ readChunksSet' = {}
    /\ collectedChapterSegments' = <<>>
    /\ totalChunks' = n
    /\ outputLen' = 0
    /\ pendingIndexes' = <<>>
    /\ lastCall' = NoCall
    /\ IF IsEmptyDocument(n)
       THEN /\ rlmPc' = "returned"
            /\ orchestration' = NoOrchestration
            /\ rlmResult' = [kind |-> "empty_document", metadata |-> FALSE,
                             warning |-> FALSE, contentLen |-> 0, totalChunks |-> 0,
                             chapters |-> <<>>]
       ELSE /\ rlmPc' = "running"
            /\ orchestration' = [checkpoint |-> TRUE, tools |-> TRUE, invoked |-> TRUE,
                                 agentEnd |-> "none"]
            /\ rlmResult' = NoResult
    /\ UNCHANGED minCoveragePct

GetDocumentStats ==
    /\ rlmPc = "running"
    /\ lastCall' = [tool |-> "get_document_stats", result |-> "stats"]
    /\ UNCHANGED <<rlmPc, totalChunks, readChunksSet, outputLen, minCoveragePct,
                   pendingIndexes, rlmResult, collectedChapterSegments, orchestration>>

GetChunkList ==
    /\ rlmPc = "running"
    /\ lastCall' = [tool |-> "get_chunk_list", result |-> "previews"]
    /\ UNCHANGED <<rlmPc, totalChunks, readChunksSet, outputLen, minCoveragePct,
                   pendingIndexes, rlmResult, collectedChapterSegments, orchestration>>

SearchDocument ==
    /\ rlmPc = "running"
    /\ lastCall' = [tool |-> "search_document", result |-> "matches"]
    /\ UNCHANGED <<rlmPc, totalChunks, readChunksSet, outputLen, minCoveragePct,
                   pendingIndexes, rlmResult, collectedChapterSegments, orchestration>>

ReadChunk(index) ==
    /\ rlmPc = "running"
    /\ readChunksSet' = ReadChunkCovered(readChunksSet, index)
    /\ lastCall' = [tool |-> "read_chunk",
                    result |-> IF ChunkExists(index) THEN "content" ELSE "chunk_not_found"]
    /\ UNCHANGED <<rlmPc, totalChunks, outputLen, minCoveragePct, pendingIndexes, rlmResult,
                   collectedChapterSegments, orchestration>>

\* spawnReader up to its await: the chunks are read, the sub-agent is invoked.
SpawnReaderCall(indexes) ==
    /\ rlmPc = "running"
    /\ readChunksSet' = SpawnReaderCovered(readChunksSet, indexes)
    /\ pendingIndexes' = indexes
    /\ rlmPc' = "awaiting"
    /\ lastCall' = [tool |-> "spawn_reader", result |-> "pending"]
    /\ UNCHANGED <<totalChunks, outputLen, minCoveragePct, rlmResult,
                   collectedChapterSegments, orchestration>>

\* spawnReader after its await: the sub-agent answered (and its answer is
\* parsed for chapter fragments), failed or timed out.
SpawnReaderReturn(outcome, answer) ==
    /\ rlmPc = "awaiting"
    /\ Len(SpawnReaderCollected(collectedChapterSegments, outcome, answer)) <= MaxSessionFragments
    /\ rlmPc' = "running"
    /\ pendingIndexes' = <<>>
    /\ collectedChapterSegments' =
           SpawnReaderCollected(collectedChapterSegments, outcome, answer)
    /\ lastCall' = IF outcome = "answer"
                   THEN [tool |-> "spawn_reader", result |-> "answer", answer |-> answer]
                   ELSE [tool |-> "spawn_reader", result |-> "reader_error"]
    /\ UNCHANGED <<totalChunks, readChunksSet, outputLen, minCoveragePct, rlmResult,
                   orchestration>>

\* An update_output that appends to the buffer.
UpdatedOutputAppended(oldLen, len) == oldLen + len

\* Line 671: this.output = content
UpdatedOutput(oldLen, len) == len

UpdateOutput(len) ==
    /\ rlmPc = "running"
    /\ outputLen' = UpdatedOutput(outputLen, len)
    /\ lastCall' = [tool |-> "update_output", result |-> "output_updated"]
    /\ UNCHANGED <<rlmPc, totalChunks, readChunksSet, minCoveragePct, pendingIndexes, rlmResult,
                   collectedChapterSegments, orchestration>>

GetOutput ==
    /\ rlmPc = "running"
    /\ lastCall' = [tool |-> "get_output",
                    result |-> IF outputLen = 0 THEN "output_empty" ELSE "output"]
    /\ UNCHANGED <<rlmPc, totalChunks, readChunksSet, outputLen, minCoveragePct,
                   pendingIndexes, rlmResult, collectedChapterSegments, orchestration>>

Done ==
    /\ rlmPc = "running"
    /\ lastCall' = [tool |-> "done",
                    result |-> DoneVerdict(totalChunks, Cardinality(readChunksSet),
                                           minCoveragePct, outputLen)]
    /\ UNCHANGED <<rlmPc, totalChunks, readChunksSet, outputLen, minCoveragePct,
                   pendingIndexes, rlmResult, collectedChapterSegments, orchestration>>

\* Lines 848-854 and 882-888: the chapters read() returns. Above the
\* threshold mergeChaptersWithLLM decides: the list the model wrote, or the
\* locally merged one when the call or its parsing fails. An empty list is
\* returned as undefined (<<>> here).
FinalChapterChoices(rawChapters, total) ==
    { mergeChaptersWithLLM(rawChapters, response) : response \in MergeResponses(total) }

\* A recursion-limit return that carries no warning.
LimitWarningMissing == FALSE

\* Line 897: the warning of the recursion-limit return.
LimitWarning == TRUE

\* agent.invoke resolved (the agent stopped issuing tool calls): lines 842-865.
AgentFinish ==
    /\ rlmPc = "running"
    /\ rlmPc' = "returned"
    /\ orchestration' = [orchestration EXCEPT !.agentEnd = "resolved"]
    /\ \E chapters \in FinalChapterChoices(getCollectedChapters(collectedChapterSegments),
                                           totalChunks) :
          rlmResult' = [kind |-> "result", metadata |-> TRUE, warning |-> FALSE,
                        contentLen |-> outputLen, totalChunks |-> totalChunks,
                        chapters |-> chapters]
    /\ UNCHANGED <<totalChunks, readChunksSet, outputLen, minCoveragePct,
                   pendingIndexes, lastCall, collectedChapterSegments>>

\* agent.invoke rejected with the recursion-limit error: lines 876-901.
AgentRecursionLimit ==
    /\ rlmPc = "running"
    /\ rlmPc' = "returned"
    /\ orchestration' = [orchestration EXCEPT !.agentEnd = "recursion_limit"]
    /\ \E chapters \in FinalChapterChoices(getCollectedChapters(collectedChapterSegments),
                                           totalChunks) :
          rlmResult' = [kind |-> "result", metadata |-> TRUE, warning |-> LimitWarning,
                        contentLen |-> outputLen, totalChunks |-> totalChunks,
                        chapters |-> chapters]
    /\ UNCHANGED <<totalChunks, readChunksSet, outputLen, minCoveragePct,
                   pendingIndexes, lastCall, collectedChapterSegments>>

\* A catch branch that returns the output buffer with metadata.
ProcessErrorAsResult(outLen, total) ==
    [kind |-> "result", metadata |-> TRUE, warning |-> FALSE,
     contentLen |-> outLen, totalChunks |-> total, chapters |-> <<>>]

\* Lines 909-911: { content: RLM_MESSAGES.PROCESS_ERROR(errorMessage) }.
ProcessErrorResult(outLen, total) ==
    [kind |-> "process_error", metadata |-> FALSE, warning |-> FALSE,
     contentLen |-> 0, totalChunks |-> 0, chapters |-> <<>>]

\* agent.invoke rejected with any other error: lines 903-911.
AgentError ==
    /\ rlmPc = "running"
    /\ rlmPc' = "returned"
    /\ orchestration' = [orchestration EXCEPT !.agentEnd = "error"]
    /\ rlmResult' = ProcessErrorResult(outputLen, totalChunks)
    /\ UNCHANGED <<totalChunks, readChunksSet, outputLen, minCoveragePct,
                   pendingIndexes, lastCall, collectedChapterSegments>>

Init ==
    /\ RlmIdle
    /\ minCoveragePct \in MinCoverageChoices
    /\ SpIdle /\ SegIdle /\ ChIdle /\ FragIdle /\ SessIdle /\ TwinIdle /\ DeepIdle /\ MergeIdle /\ GuideIdle /\ TtsIdle /\ LogIdle /\ StoreIdle

Next ==
    \/ \E n \in TotalChunkChoices : ReadStart(n) /\ UNCHANGED <<spVars, segVars, chVars, fragVars, sessVars, twinVars, deepVars, mergeVars, guideVars, ttsVars, logVars, storeVars>>
    \/ GetDocumentStats /\ UNCHANGED <<spVars, segVars, chVars, fragVars, sessVars, twinVars, deepVars, mergeVars, guideVars, ttsVars, logVars, storeVars>>
    \/ GetChunkList /\ UNCHANGED <<spVars, segVars, chVars, fragVars, sessVars, twinVars, deepVars, mergeVars, guideVars, ttsVars, logVars, storeVars>>
    \/ SearchDocument /\ UNCHANGED <<spVars, segVars, chVars, fragVars, sessVars, twinVars, deepVars, mergeVars, guideVars, ttsVars, logVars, storeVars>>
    \/ \E index \in ReadIndexChoices(totalChunks) : ReadChunk(index) /\ UNCHANGED <<spVars, segVars, chVars, fragVars, sessVars, twinVars, deepVars, mergeVars, guideVars, ttsVars, logVars, storeVars>>
    \/ \E indexes \in IndexLists(totalChunks) :
          SpawnReaderCall(indexes) /\ UNCHANGED <<spVars, segVars, chVars, fragVars, sessVars, twinVars, deepVars, mergeVars, guideVars, ttsVars, logVars, storeVars>>
    \/ \E outcome \in {"answer", "failed", "timeout"}, answer \in AnswerChoices :
          SpawnReaderReturn(outcome, answer) /\ UNCHANGED <<spVars, segVars, chVars, fragVars, sessVars, twinVars, deepVars, mergeVars, guideVars, ttsVars, logVars, storeVars>>
    \/ \E len \in OutputLenChoices : UpdateOutput(len) /\ UNCHANGED <<spVars, segVars, chVars, fragVars, sessVars, twinVars, deepVars, mergeVars, guideVars, ttsVars, logVars, storeVars>>
    \/ GetOutput /\ UNCHANGED <<spVars, segVars, chVars, fragVars, sessVars, twinVars, deepVars, mergeVars, guideVars, ttsVars, logVars, storeVars>>
    \/ Done /\ UNCHANGED <<spVars, segVars, chVars, fragVars, sessVars, twinVars, deepVars, mergeVars, guideVars, ttsVars, logVars, storeVars>>
    \/ AgentFinish /\ UNCHANGED <<spVars, segVars, chVars, fragVars, sessVars, twinVars, deepVars, mergeVars, guideVars, ttsVars, logVars, storeVars>>
    \/ AgentRecursionLimit /\ UNCHANGED <<spVars, segVars, chVars, fragVars, sessVars, twinVars, deepVars, mergeVars, guideVars, ttsVars, logVars, storeVars>>
    \/ AgentError /\ UNCHANGED <<spVars, segVars, chVars, fragVars, sessVars, twinVars, deepVars, mergeVars, guideVars, ttsVars, logVars, storeVars>>

Spec == Init /\ [][Next]_vars

(***************************************************************************)
(* Text as a sequence of characters. NL is a line feed, SP a space, JU the *)
(* ideographic full stop (U+3002), DOT the ASCII full stop, "a" any other  *)
(* character.                                                              *)
(***************************************************************************)
NL == "NL"
SP == "SP"
JU == "JU"
DOT == "."
Whitespace == {NL, SP}

MaxTextLen == 5
MaxChars == 4

SetMin(S) == CHOOSE x \in S : \A y \in S : x <= y
SetMax(S) == CHOOSE x \in S : \A y \in S : x >= y

TextsUpTo(alphabet, n) == UNION { [1..k -> alphabet] : k \in 0..n }

\* String.prototype.trim
Trim(s) ==
    LET keep == { i \in 1..Len(s) : s[i] \notin Whitespace }
    IN  IF keep = {} THEN <<>> ELSE SubSeq(s, SetMin(keep), SetMax(keep))

\* String.prototype.substring(from, to), 0-based, `to` exclusive, clamped.
Substring(s, from, to) ==
    LET lo == IF from > Len(s) THEN Len(s) ELSE from
        hi == IF to > Len(s) THEN Len(s) ELSE to
    IN  SubSeq(s, lo + 1, hi)

\* String.prototype.lastIndexOf(ch, fromIndex) for one character: the
\* largest 0-based index <= fromIndex holding ch, or -1.
LastIndexOf(s, ch, fromIndex) ==
    LET hits == { i \in 0..(Len(s) - 1) : i <= fromIndex /\ s[i + 1] = ch }
    IN  IF hits = {} THEN -1 ELSE SetMax(hits)

RECURSIVE Flatten(_)
Flatten(ss) == IF ss = <<>> THEN <<>> ELSE Head(ss) \o Flatten(Tail(ss))

(***************************************************************************)
(* splitLongText and splitIntoParagraphs (text-splitter).                  *)
(***************************************************************************)
\* splitLongText, lines 12-20: where the next piece is cut.
SplitIndex(remaining, maxChars) ==
    LET ju == LastIndexOf(remaining, JU, maxChars)
        idx == IF ju = -1 \/ 2 * ju < maxChars
               THEN LastIndexOf(remaining, DOT, maxChars)
               ELSE ju
    IN  IF idx = -1 \/ 2 * idx < maxChars THEN maxChars ELSE idx + 1

\* A remainder that starts one character after the cut.
RestAfterCutSkipsOne(remaining, splitIndex) ==
    Trim(Substring(remaining, splitIndex + 1, Len(remaining)))

\* splitLongText, line 23: remaining.substring(splitIndex).trim()
RestAfterCut(remaining, splitIndex) ==
    Trim(Substring(remaining, splitIndex, Len(remaining)))

\* splitLongText: the while loop and the final push.
RECURSIVE SplitLongText(_, _)
SplitLongText(remaining, maxChars) ==
    IF Len(remaining) > maxChars
    THEN LET splitIndex == SplitIndex(remaining, maxChars)
         IN  <<Trim(Substring(remaining, 0, splitIndex))>>
               \o SplitLongText(RestAfterCut(remaining, splitIndex), maxChars)
    ELSE IF remaining # <<>> THEN <<remaining>> ELSE <<>>

\* content.split(/\n\s*\n/): the leftmost line feed followed, after
\* whitespace only, by another line feed starts a separator, which extends
\* (greedily) to the last such line feed.
RECURSIVE SplitBlankLines(_)
SplitBlankLines(s) ==
    LET closes(i) == { j \in (i + 1)..Len(s) :
                         /\ s[j] = NL
                         /\ \A k \in (i + 1)..(j - 1) : s[k] \in Whitespace }
        starts == { i \in 1..Len(s) : s[i] = NL /\ closes(i) # {} }
    IN  IF starts = {} THEN <<s>>
        ELSE LET i == SetMin(starts)
                 j == SetMax(closes(i))
             IN  <<SubSeq(s, 1, i - 1)>> \o SplitBlankLines(SubSeq(s, j + 1, Len(s)))

\* .filter(p => p.trim().length > 0)
RawParagraphs(content) == SelectSeq(SplitBlankLines(content), LAMBDA p : Trim(p) # <<>>)

\* splitIntoParagraphs, lines 42-66: the packing loop and the final push.
RECURSIVE PackParagraphs(_, _, _, _)
PackParagraphs(raws, paragraphs, currentParagraph, maxChars) ==
    IF raws = <<>>
    THEN IF currentParagraph # <<>> THEN Append(paragraphs, currentParagraph) ELSE paragraphs
    ELSE LET trimmed == Trim(Head(raws))
         IN  IF Len(currentParagraph) + Len(trimmed) + 2 <= maxChars
             THEN PackParagraphs(Tail(raws), paragraphs,
                      IF currentParagraph # <<>>
                      THEN currentParagraph \o <<NL, NL>> \o trimmed
                      ELSE trimmed,
                      maxChars)
             ELSE LET pushed == IF currentParagraph # <<>>
                                THEN Append(paragraphs, currentParagraph)
                                ELSE paragraphs
                  IN  IF Len(trimmed) > maxChars
                      THEN PackParagraphs(Tail(raws),
                               pushed \o SplitLongText(trimmed, maxChars), <<>>, maxChars)
                      ELSE PackParagraphs(Tail(raws), pushed, trimmed, maxChars)

splitIntoParagraphs(content, maxChars) ==
    PackParagraphs(RawParagraphs(content), <<>>, <<>>, maxChars)

SplitAlphabet == {"a", JU, DOT, NL, SP}

SpInit ==
    /\ spPc = "input"
    /\ spContent \in TextsUpTo(SplitAlphabet, MaxTextLen)
    /\ spMaxChars \in 1..MaxChars
    /\ spParagraphs = <<>>

SplitCall ==
    /\ spPc = "input"
    /\ spParagraphs' = splitIntoParagraphs(spContent, spMaxChars)
    /\ spPc' = "done"
    /\ UNCHANGED <<spContent, spMaxChars>>

InitChunk ==
    SpInit /\ RlmIdle /\ minCoveragePct = 80 /\ SegIdle /\ ChIdle /\ FragIdle /\ SessIdle /\ TwinIdle /\ DeepIdle /\ MergeIdle /\ GuideIdle /\ TtsIdle /\ LogIdle /\ StoreIdle

NextChunk == SplitCall /\ UNCHANGED <<rlmVars, segVars, chVars, fragVars, sessVars, twinVars, deepVars, mergeVars, guideVars, ttsVars, logVars, storeVars>>

SpecChunk == InitChunk /\ [][NextChunk]_vars

(***************************************************************************)
(* Claims about the chunker (checked under SpecChunk).                     *)
(***************************************************************************)
NonWhitespace(s) == SelectSeq(s, LAMBDA c : c \notin Whitespace)

\* C5: chunk size bound. Every chunk splitIntoParagraphs returns has length
\* at most maxChars.
ChunkSizeBound ==
    spPc = "done" => \A i \in DOMAIN spParagraphs : Len(spParagraphs[i]) <= spMaxChars

\* C6: chunk reconstruction. The chunks in order hold exactly the
\* non-whitespace characters of the text, in the text's order, and no chunk
\* is empty.
ChunkReconstruction ==
    spPc = "done" =>
        /\ NonWhitespace(Flatten(spParagraphs)) = NonWhitespace(spContent)
        /\ \A i \in DOMAIN spParagraphs : spParagraphs[i] # <<>>

\* A text cut into three chunks or more, with whitespace lost at a boundary.
ChunkReconstructionWitness ==
    /\ spPc = "done"
    /\ Len(spParagraphs) >= 3
    /\ Len(Flatten(spParagraphs)) < Len(spContent)

(***************************************************************************)
(* DeepReader.splitChapterIntoSegments. QM stands for the other sentence   *)
(* marks the code looks for (U+FF01, U+FF1F, the double quote).            *)
(***************************************************************************)
QM == "QM"

\* SEGMENT_SIZE is 2500 in the source; the model scales it down, keeping
\* the 0.6 factor of the cut window.
SEGMENT_SIZE == 3
MaxContentLen == 6

\* content.lastIndexOf('\n\n', fromIndex)
LastIndexOfBreak(s, fromIndex) ==
    LET hits == { i \in 0..(Len(s) - 2) :
                    i <= fromIndex /\ s[i + 1] = NL /\ s[i + 2] = NL }
    IN  IF hits = {} THEN -1 ELSE SetMax(hits)

\* A cut that takes any paragraph break or sentence mark found, also one at
\* or before pos.
SegmentEndNoWindow(content, pos) ==
    LET endPos == IF pos + SEGMENT_SIZE < Len(content)
                  THEN pos + SEGMENT_SIZE ELSE Len(content)
    IN  IF endPos < Len(content)
        THEN LET paragraphBreak == LastIndexOfBreak(content, endPos)
             IN  IF paragraphBreak > 0
                 THEN paragraphBreak
                 ELSE LET sentenceEnd ==
                              SetMax({ LastIndexOf(content, JU, endPos),
                                       LastIndexOf(content, QM, endPos) })
                      IN  IF sentenceEnd > 0 THEN sentenceEnd + 1 ELSE endPos
        ELSE endPos

\* splitChapterIntoSegments, lines 257-277: endPos of the segment at pos.
\* x > pos + SEGMENT_SIZE * 0.6 is 10 * x > 10 * pos + 6 * SEGMENT_SIZE.
SegmentEnd(content, pos) ==
    LET endPos == IF pos + SEGMENT_SIZE < Len(content)
                  THEN pos + SEGMENT_SIZE ELSE Len(content)
    IN  IF endPos < Len(content)
        THEN LET paragraphBreak == LastIndexOfBreak(content, endPos)
             IN  IF 10 * paragraphBreak > 10 * pos + 6 * SEGMENT_SIZE
                 THEN paragraphBreak
                 ELSE LET sentenceEnd ==
                              SetMax({ LastIndexOf(content, JU, endPos),
                                       LastIndexOf(content, QM, endPos) })
                      IN  IF 10 * sentenceEnd > 10 * pos + 6 * SEGMENT_SIZE
                          THEN sentenceEnd + 1
                          ELSE endPos
        ELSE endPos

SegAlphabet == {"a", NL, JU, QM}

\* Chapter content is built by joining trimmed chunks with "\n\n"
\* (generateContextAndChapters, line 333): it neither starts nor ends with
\* whitespace, and a blank line is exactly two line feeds between
\* non-whitespace characters.
IsChapterContent(c) ==
    /\ Trim(c) = c
    /\ \A i \in 1..(Len(c) - 1) :
          (c[i] = NL /\ c[i + 1] = NL) =>
              (c[i - 1] \notin Whitespace /\ c[i + 2] \notin Whitespace)

SegInit ==
    /\ segPc = "loop"
    /\ segContent \in { c \in TextsUpTo(SegAlphabet, MaxContentLen) : IsChapterContent(c) }
    /\ segPos = 0
    /\ segments = <<>>

\* One iteration of the while loop, lines 256-292.
SegmentStep ==
    /\ segPc = "loop"
    /\ segPos < Len(segContent)
    /\ LET endPos == SegmentEnd(segContent, segPos)
       IN  /\ segments' = Append(segments,
                  [id |-> Len(segments) + 1,
                   charStart |-> segPos,
                   charEnd |-> endPos,
                   content |-> Trim(Substring(segContent, segPos, endPos))])
           /\ segPos' = endPos
    /\ UNCHANGED <<segPc, segContent>>

\* The loop condition fails: return segments.
SegmentReturn ==
    /\ segPc = "loop"
    /\ ~(segPos < Len(segContent))
    /\ segPc' = "done"
    /\ UNCHANGED <<segContent, segPos, segments>>

InitSeg ==
    SegInit /\ RlmIdle /\ minCoveragePct = 80 /\ SpIdle /\ ChIdle /\ FragIdle /\ SessIdle /\ TwinIdle /\ DeepIdle /\ MergeIdle /\ GuideIdle /\ TtsIdle /\ LogIdle /\ StoreIdle

NextSeg ==
    \/ SegmentStep /\ UNCHANGED <<rlmVars, spVars, chVars, fragVars, sessVars, twinVars, deepVars, mergeVars, guideVars, ttsVars, logVars, storeVars>>
    \/ SegmentReturn /\ UNCHANGED <<rlmVars, spVars, chVars, fragVars, sessVars, twinVars, deepVars, mergeVars, guideVars, ttsVars, logVars, storeVars>>

SpecSeg == InitSeg /\ [][NextSeg]_vars

(***************************************************************************)
(* Claims about the segment splitter (checked under SpecSeg).              *)
(***************************************************************************)
\* C7: segment size bound. Every segment spans at most SEGMENT_SIZE
\* characters and its content is at most SEGMENT_SIZE characters long.
SegmentSizeBound ==
    \A i \in DOMAIN segments :
        /\ segments[i].charEnd - segments[i].charStart <= SEGMENT_SIZE
        /\ Len(segments[i].content) <= SEGMENT_SIZE

\* C8: segments partition the chapter. The segments built so far have ids
\* 1..n in order and tile [0, pos) with non-empty spans, pos never passes
\* the end of the content (so the loop ends after at most Len(content)
\* iterations), and when the function returns the spans tile the whole
\* content.
SegmentsPartition ==
    /\ \A i \in DOMAIN segments :
          /\ segments[i].id = i
          /\ segments[i].charStart = (IF i = 1 THEN 0 ELSE segments[i - 1].charEnd)
          /\ segments[i].charEnd > segments[i].charStart
    /\ segPos = (IF segments = <<>> THEN 0 ELSE segments[Len(segments)].charEnd)
    /\ segPos <= Len(segContent)
    /\ segPc = "done" => segPos = Len(segContent)

\* A returned split of three segments or more, one cut after a sentence
\* mark and one at a paragraph break.
SegmentsPartitionWitness ==
    /\ segPc = "done"
    /\ Len(segments) >= 3
    /\ \E i \in DOMAIN segments :
          segments[i].charEnd < Len(segContent) /\ segContent[segments[i].charEnd] \in {JU, QM}
    /\ \E i \in DOMAIN segments :
          segments[i].charEnd < Len(segContent) /\ segContent[segments[i].charEnd + 1] = NL

(***************************************************************************)
(* DeepReader.processChapterWithAgent: dispatch loop, gap-fill, assembly.  *)
(* segmentOutputs is a JavaScript Map: a sequence of entries in insertion  *)
(* order, at most one per key. The assembled output is the sequence of its *)
(* "### title \n\n content" blocks.                                        *)
(***************************************************************************)
MaxSegments == 3

\* sceneTitle arguments of the agent (a title is a pair of its origin and a
\* number), and texts the writer model returns.
SceneTitles == {<<"agent", 1>>}
GeneratedTexts == {"x", "y"}

\* Line 683: the scene title gap-fill derives from the segment.
AutoTitle(id) == <<"auto", id>>

MapKeys(m) == [i \in 1..Len(m) |-> m[i].id]
MapHas(m, id) == \E i \in 1..Len(m) : m[i].id = id
MapGet(m, id) == m[CHOOSE i \in 1..Len(m) : m[i].id = id]

\* A set that stores a value only under a key the map already has.
MapSetExistingOnly(m, id, title, content) ==
    [i \in 1..Len(m) |-> IF m[i].id = id
                         THEN [id |-> id, title |-> title, content |-> content]
                         ELSE m[i]]

\* Map.prototype.set: an existing key keeps its place and takes the value,
\* a new key goes last.
MapSet(m, id, title, content) ==
    LET entry == [id |-> id, title |-> title, content |-> content]
    IN  IF MapHas(m, id)
        THEN [i \in 1..Len(m) |-> IF m[i].id = id THEN entry ELSE m[i]]
        ELSE Append(m, entry)

\* Array.prototype.sort((a, b) => a - b) on numbers.
RECURSIVE InsertAsc(_, _)
InsertAsc(sorted, x) ==
    IF sorted = <<>> THEN <<x>>
    ELSE IF x < Head(sorted) THEN <<x>> \o sorted
         ELSE <<Head(sorted)>> \o InsertAsc(Tail(sorted), x)

RECURSIVE SortAsc(_)
SortAsc(xs) == IF xs = <<>> THEN <<>> ELSE InsertAsc(SortAsc(Tail(xs)), Head(xs))

\* The keys taken in insertion order, unsorted.
SortedIdsUnsorted(m) == MapKeys(m)

\* Line 715: [...this.segmentOutputs.keys()].sort((a, b) => a - b)
SortedIds(m) == SortAsc(MapKeys(m))

\* Lines 716-719: the blocks of the sorted ids.
SortedOutput(m) ==
    LET ids == SortedIds(m)
    IN  [i \in 1..Len(ids) |->
            [title |-> MapGet(m, ids[i]).title, content |-> MapGet(m, ids[i]).content]]

\* Missed segments taken to be those after the last processed one.
MissedAfterLastProcessed(n, processed) ==
    LET from == IF processed = {} THEN 1 ELSE SetMax(processed) + 1
    IN  [i \in 1..(n - from + 1) |-> from + i - 1]

\* Line 674: this.segments.filter(s => !this.processedSegments.has(s.id))
MissedSegments(n, processed) ==
    SortAsc(LET missing == { id \in 1..n : id \notin processed }
                RECURSIVE enum(_)
                enum(S) == IF S = {} THEN <<>>
                           ELSE LET x == CHOOSE y \in S : TRUE IN <<x>> \o enum(S \ {x})
            IN  enum(missing))

\* A checkDone that accepts with one segment left.
CheckDoneOneShort(n, processed) ==
    [canFinish |-> Cardinality(processed) >= n - 1,
     remaining |-> n - Cardinality(processed)]

\* checkDone, lines 573-585.
CheckDone(n, processed) ==
    [canFinish |-> Cardinality(processed) >= n,
     remaining |-> n - Cardinality(processed)]

\* The phases of a chapter pass: the reset of lines 591-596, the agent loop
\* of lines 657-661, the gap-fill loop of lines 674-710, the assembly of
\* lines 715-721.
ChapterPhases == <<"initialized", "dispatching", "gap-filling", "assembled">>

\* The phase a pass enters when it goes on to pc; a thrown pass enters none.
PhaseEntered(phases, pc) ==
    CASE pc = "gapfill"  -> Append(phases, "gap-filling")
      [] pc = "returned" -> Append(phases, "assembled")
      [] OTHER           -> phases

\* onProgress({type: 'segment_done', segmentId, segmentTitle,
\* segmentContent}), lines 627-634 and 696-703; text is result.generatedText.
SegmentDone(id, title, text) == [id |-> id, title |-> title, text |-> text]

\* onProgress({type: 'segment_start'}) and ({type: 'segment_done'}), lines
\* 623, 627, 686, 696: what the event does to the record of late events.
SegmentEvent == segmentEventAfterDone' = (segmentEventAfterDone \/ chapterDoneEvents > 0)

\* processOneChapter, lines 797-809, and processChapterWithAgent, lines
\* 591-596: the state of a new chapter pass.
ChapterStart(n) ==
    /\ chPc \in {"idle", "finished", "thrown"}
    /\ chPc' = "dispatching"
    /\ segmentCount' = n
    /\ processedSegments' = {}
    /\ segmentOutputs' = <<>>
    /\ chapterOutput' = <<>>
    /\ missedSegments' = <<>>
    /\ gapFailed' = {}
    /\ lastRecorded' = <<>>
    /\ rewroteStored' = FALSE
    /\ loopEnd' = "none"
    /\ chLastCall' = ChCall("none")
    /\ writerCall' = NoWriterCall
    /\ chapterDoneEvents' = 0
    /\ segmentEventAfterDone' = FALSE
    /\ chPhases' = <<"initialized", "dispatching">>
    /\ segmentStarted' = -1
    /\ segmentDoneEvent' = NoSegmentDone

\* handleSpawnWriter, lines 543-552: a rewrite is recorded.
RecordRewrite(id, title, content) ==
    /\ processedSegments' = processedSegments \cup {id}
    /\ segmentOutputs' = MapSet(segmentOutputs, id, title, content)
    /\ lastRecorded' = [k \in (DOMAIN lastRecorded) \cup {id} |->
                           IF k = id THEN [title |-> title, content |-> content]
                           ELSE lastRecorded[k]]
    /\ rewroteStored' = (rewroteStored \/ MapHas(segmentOutputs, id))

GetChapterInfo ==
    /\ chPc = "dispatching"
    /\ writerCall = NoWriterCall
    /\ chLastCall' = ChCall("get_chapter_info")
    /\ UNCHANGED <<chPc, segmentCount, processedSegments, segmentOutputs, chapterOutput,
                   missedSegments, gapFailed, lastRecorded, rewroteStored, loopEnd,
                   writerCall, chapterDoneEvents, segmentEventAfterDone>>
    /\ UNCHANGED chPhases
    /\ UNCHANGED <<segmentStarted, segmentDoneEvent>>

ReadSegment(id) ==
    /\ chPc = "dispatching"
    /\ writerCall = NoWriterCall
    /\ chLastCall' = ChCall("read_segment")
    /\ UNCHANGED <<chPc, segmentCount, processedSegments, segmentOutputs, chapterOutput,
                   missedSegments, gapFailed, lastRecorded, rewroteStored, loopEnd,
                   writerCall, chapterDoneEvents, segmentEventAfterDone>>
    /\ UNCHANGED chPhases
    /\ UNCHANGED <<segmentStarted, segmentDoneEvent>>

\* Lines 533-536: writerLLM.invoke is awaited as it is, without withTimeout
\* and without a timeout option of the model (createLLM, lines 235-246).
WriterCallTimed == FALSE

\* The spawn_writer tool (rewrite_segment), lines 620-636, up to the await
\* of handleSpawnWriter (line 534): segment_start is emitted; for a segment
\* that does not exist handleSpawnWriter returns an error result at once
\* (lines 499-505) and the tool goes on to emit segment_done with it, the
\* result having no generatedText; otherwise the writer model is invoked.
SpawnWriter(id, title) ==
    /\ chPc = "dispatching"
    /\ writerCall = NoWriterCall
    /\ chLastCall' = ChCall("spawn_writer")
    /\ SegmentEvent
    /\ segmentStarted' = id
    /\ writerCall' = IF id \in 1..segmentCount
                     THEN [from |-> "dispatch", id |-> id, title |-> title]
                     ELSE NoWriterCall
    /\ segmentDoneEvent' = IF id \in 1..segmentCount
                           THEN segmentDoneEvent
                           ELSE SegmentDone(id, title, "undefined")
    /\ UNCHANGED <<chPc, segmentCount, processedSegments, segmentOutputs, chapterOutput,
                   missedSegments, gapFailed, lastRecorded, rewroteStored, loopEnd,
                   chapterDoneEvents>>
    /\ UNCHANGED chPhases

\* The spawn_writer tool after the await: the rewrite is recorded and
\* segment_done emitted, unless the invocation throws (or, were there a
\* timer, times out).
SpawnWriterReturn(outcome) ==
    /\ chPc = "dispatching"
    /\ writerCall.from = "dispatch"
    /\ outcome = "timeout" => WriterCallTimed
    /\ writerCall' = NoWriterCall
    /\ IF outcome \in GeneratedTexts
       THEN /\ RecordRewrite(writerCall.id, writerCall.title, outcome)
            /\ SegmentEvent
            /\ segmentDoneEvent' = SegmentDone(writerCall.id, writerCall.title, outcome)
       ELSE UNCHANGED <<processedSegments, segmentOutputs, lastRecorded, rewroteStored,
                        segmentEventAfterDone, segmentDoneEvent>>
    /\ UNCHANGED segmentStarted
    /\ UNCHANGED <<chPc, segmentCount, chapterOutput, missedSegments, gapFailed, loopEnd,
                   chLastCall, chapterDoneEvents>>
    /\ UNCHANGED chPhases

DispatchDone ==
    /\ chPc = "dispatching"
    /\ writerCall = NoWriterCall
    /\ chLastCall' = [tool |-> "done",
                       canFinish |-> CheckDone(segmentCount, processedSegments).canFinish,
                       remaining |-> CheckDone(segmentCount, processedSegments).remaining]
    /\ UNCHANGED <<chPc, segmentCount, processedSegments, segmentOutputs, chapterOutput,
                   missedSegments, gapFailed, lastRecorded, rewroteStored, loopEnd,
                   writerCall, chapterDoneEvents, segmentEventAfterDone>>
    /\ UNCHANGED chPhases
    /\ UNCHANGED <<segmentStarted, segmentDoneEvent>>

\* A catch that rethrows the recursion-limit error as well.
AfterLoopThrowsOnLimit(how) == IF how = "resolved" THEN "gapfill" ELSE "thrown"

\* Lines 657-669: where the pass goes when agent.invoke ends. It resolves
\* ("resolved"), or rejects with the recursion-limit error, which is
\* swallowed, or with another error, which is rethrown (line 665).
AfterLoop(how) == IF how = "error" THEN "thrown" ELSE "gapfill"

\* agent.invoke resolved, or rejected with the recursion-limit error
\* (lines 657-669); line 674 then lists the missed segments.
DispatchEnds(how) ==
    /\ chPc = "dispatching"
    /\ writerCall = NoWriterCall
    /\ how \in {"resolved", "recursion_limit"}
    /\ chPc' = AfterLoop(how)
    /\ chPhases' = PhaseEntered(chPhases, AfterLoop(how))
    /\ loopEnd' = how
    /\ missedSegments' = MissedSegments(segmentCount, processedSegments)
    /\ UNCHANGED <<segmentCount, processedSegments, segmentOutputs, chapterOutput,
                   gapFailed, lastRecorded, rewroteStored, chLastCall,
                   writerCall, chapterDoneEvents, segmentEventAfterDone>>
    /\ UNCHANGED <<segmentStarted, segmentDoneEvent>>

\* agent.invoke rejected with another error: rethrown at line 665, and
\* processOneChapter throws with it.
DispatchThrows ==
    /\ chPc = "dispatching"
    /\ writerCall = NoWriterCall
    /\ chPc' = AfterLoop("error")
    /\ chPhases' = PhaseEntered(chPhases, AfterLoop("error"))
    /\ loopEnd' = "error"
    /\ missedSegments' = IF AfterLoop("error") = "gapfill"
                         THEN MissedSegments(segmentCount, processedSegments)
                         ELSE missedSegments
    /\ UNCHANGED <<segmentCount, processedSegments, segmentOutputs, chapterOutput,
                   gapFailed, lastRecorded, rewroteStored, chLastCall,
                   writerCall, chapterDoneEvents, segmentEventAfterDone>>
    /\ UNCHANGED <<segmentStarted, segmentDoneEvent>>

\* One iteration of the gap-fill loop up to its await, lines 678-693:
\* segment_start is emitted and handleSpawnWriter invokes the writer model
\* with the title derived from the segment.
GapFillCall ==
    /\ chPc = "gapfill"
    /\ writerCall = NoWriterCall
    /\ missedSegments # <<>>
    /\ writerCall' = [from |-> "gapfill", id |-> Head(missedSegments),
                      title |-> AutoTitle(Head(missedSegments))]
    /\ SegmentEvent
    /\ segmentStarted' = Head(missedSegments)
    /\ UNCHANGED segmentDoneEvent
    /\ UNCHANGED <<chPc, segmentCount, processedSegments, segmentOutputs, chapterOutput,
                   missedSegments, gapFailed, lastRecorded, rewroteStored, loopEnd,
                   chLastCall, chapterDoneEvents>>
    /\ UNCHANGED chPhases

\* A gap-fill loop that a failed rewrite ends.
GapFillRestStopsOnFailure(missed, failed) == IF failed THEN <<>> ELSE Tail(missed)

\* Lines 678 and 704-706: the catch is inside the loop body, so the loop
\* goes on to the next missed segment after a failure as after a success.
GapFillRest(missed, failed) == Tail(missed)

\* The iteration after the await, lines 695-706: the rewrite is recorded
\* and segment_done emitted, or the failure is logged.
GapFillReturn(outcome) ==
    /\ chPc = "gapfill"
    /\ writerCall.from = "gapfill"
    /\ outcome = "timeout" => WriterCallTimed
    /\ writerCall' = NoWriterCall
    /\ IF outcome \in GeneratedTexts
       THEN /\ RecordRewrite(writerCall.id, writerCall.title, outcome)
            /\ SegmentEvent
            /\ segmentDoneEvent' = SegmentDone(writerCall.id, writerCall.title, outcome)
            /\ UNCHANGED gapFailed
       ELSE /\ gapFailed' = gapFailed \cup {writerCall.id}
            /\ UNCHANGED <<processedSegments, segmentOutputs, lastRecorded, rewroteStored,
                           segmentEventAfterDone, segmentDoneEvent>>
    /\ UNCHANGED segmentStarted
    /\ missedSegments' = GapFillRest(missedSegments, outcome \notin GeneratedTexts)
    /\ UNCHANGED <<chPc, segmentCount, chapterOutput, loopEnd, chLastCall,
                   chapterDoneEvents>>
    /\ UNCHANGED chPhases

\* Lines 715-729: assembly, and the return of processChapterWithAgent.
Assemble ==
    /\ chPc = "gapfill"
    /\ writerCall = NoWriterCall
    /\ missedSegments = <<>>
    /\ chapterOutput' = SortedOutput(segmentOutputs)
    /\ chPc' = "returned"
    /\ chPhases' = PhaseEntered(chPhases, "returned")
    /\ UNCHANGED <<segmentCount, processedSegments, segmentOutputs, missedSegments,
                   gapFailed, lastRecorded, rewroteStored, loopEnd, chLastCall,
                   writerCall, chapterDoneEvents, segmentEventAfterDone>>
    /\ UNCHANGED <<segmentStarted, segmentDoneEvent>>

\* A processOneChapter that reports chapter_done twice.
ChapterDoneEmittedTwice(count) == count + 2

\* Line 828: onProgress({type: 'chapter_done'}), once.
ChapterDoneEmitted(count) == count + 1

\* processOneChapter after processChapterWithAgent returned, lines 811-830:
\* the chapter is appended to the output file and recorded as completed,
\* chapter_done is emitted, and the output returned.
FinishOneChapter ==
    /\ chPc = "returned"
    /\ chPc' = "finished"
    /\ chapterDoneEvents' = ChapterDoneEmitted(chapterDoneEvents)
    /\ UNCHANGED <<segmentCount, processedSegments, segmentOutputs, chapterOutput,
                   missedSegments, gapFailed, lastRecorded, rewroteStored, loopEnd,
                   chLastCall, writerCall, segmentEventAfterDone>>
    /\ UNCHANGED chPhases
    /\ UNCHANGED <<segmentStarted, segmentDoneEvent>>

\* Answers of the writer model's invocation: a text, or a rejection; a
\* timeout only where a timer runs.
WriterOutcomes == GeneratedTexts \cup {"throws", "timeout"}

InitChapter ==
    ChIdle /\ RlmIdle /\ minCoveragePct = 80 /\ SpIdle /\ SegIdle /\ FragIdle /\ SessIdle /\ TwinIdle /\ DeepIdle /\ MergeIdle /\ GuideIdle /\ TtsIdle /\ LogIdle /\ StoreIdle

NextChapter ==
    \/ \E n \in 1..MaxSegments : ChapterStart(n) /\ UNCHANGED <<rlmVars, spVars, segVars, fragVars, sessVars, twinVars, deepVars, mergeVars, guideVars, ttsVars, logVars, storeVars>>
    \/ GetChapterInfo /\ UNCHANGED <<rlmVars, spVars, segVars, fragVars, sessVars, twinVars, deepVars, mergeVars, guideVars, ttsVars, logVars, storeVars>>
    \/ \E id \in 0..(segmentCount + 1) : ReadSegment(id) /\ UNCHANGED <<rlmVars, spVars, segVars, fragVars, sessVars, twinVars, deepVars, mergeVars, guideVars, ttsVars, logVars, storeVars>>
    \/ \E id \in 0..(segmentCount + 1), title \in SceneTitles :
          SpawnWriter(id, title) /\ UNCHANGED <<rlmVars, spVars, segVars, fragVars, sessVars, twinVars, deepVars, mergeVars, guideVars, ttsVars, logVars, storeVars>>
    \/ \E outcome \in WriterOutcomes :
          SpawnWriterReturn(outcome) /\ UNCHANGED <<rlmVars, spVars, segVars, fragVars, sessVars, twinVars, deepVars, mergeVars, guideVars, ttsVars, logVars, storeVars>>
    \/ DispatchDone /\ UNCHANGED <<rlmVars, spVars, segVars, fragVars, sessVars, twinVars, deepVars, mergeVars, guideVars, ttsVars, logVars, storeVars>>
    \/ \E how \in {"resolved", "recursion_limit"} :
          DispatchEnds(how) /\ UNCHANGED <<rlmVars, spVars, segVars, fragVars, sessVars, twinVars, deepVars, mergeVars, guideVars, ttsVars, logVars, storeVars>>
    \/ DispatchThrows /\ UNCHANGED <<rlmVars, spVars, segVars, fragVars, sessVars, twinVars, deepVars, mergeVars, guideVars, ttsVars, logVars, storeVars>>
    \/ GapFillCall /\ UNCHANGED <<rlmVars, spVars, segVars, fragVars, sessVars, twinVars, deepVars, mergeVars, guideVars, ttsVars, logVars, storeVars>>
    \/ \E outcome \in WriterOutcomes :
          GapFillReturn(outcome) /\ UNCHANGED <<rlmVars, spVars, segVars, fragVars, sessVars, twinVars, deepVars, mergeVars, guideVars, ttsVars, logVars, storeVars>>
    \/ Assemble /\ UNCHANGED <<rlmVars, spVars, segVars, fragVars, sessVars, twinVars, deepVars, mergeVars, guideVars, ttsVars, logVars, storeVars>>
    \/ FinishOneChapter /\ UNCHANGED <<rlmVars, spVars, segVars, fragVars, sessVars, twinVars, deepVars, mergeVars, guideVars, ttsVars, logVars, storeVars>>

SpecChapter == InitChapter /\ [][NextChapter]_vars

(***************************************************************************)
(* Claims about the chapter pass (checked under SpecChapter).              *)
(***************************************************************************)
StoredIds == { segmentOutputs[i].id : i \in 1..Len(segmentOutputs) }

\* C3 as stated: after the chapter pass returns, the output store has an
\* entry for every segment id 1..segmentCount.
GapFillComplete ==
    chPc \in {"returned", "finished"} => StoredIds = 1..segmentCount

\* C3, amended: after the chapter pass returns, the output store has an
\* entry for every segment id 1..segmentCount except those whose gap-fill
\* rewrite failed, however the dispatch loop ended.
GapFillCompleteUnlessFailed ==
    chPc \in {"returned", "finished"} => StoredIds = (1..segmentCount) \ gapFailed

\* The loop hit the recursion ceiling without a single rewrite; gap-fill
\* rewrote every segment.
GapFillCompleteWitness ==
    /\ chPc = "returned"
    /\ loopEnd = "recursion_limit"
    /\ segmentCount >= 2
    /\ gapFailed = {}
    /\ \A i \in 1..Len(segmentOutputs) :
          segmentOutputs[i].title = AutoTitle(segmentOutputs[i].id)
    /\ StoredIds = 1..segmentCount

\* C20: in the rewrite loop done() accepts if and only if every segment id
\* 1..segmentCount is in the processed set, otherwise it reports
\* segmentCount - |processed| as remaining; the call changes neither the
\* processed set nor the output store, and the loop goes on.
DispatcherDoneVerdict ==
    [][ (chPc = "dispatching" /\ chPc' = "dispatching" /\ chLastCall'.tool = "done") =>
            /\ chLastCall'.canFinish <=> (1..segmentCount) \subseteq processedSegments
            /\ ~chLastCall'.canFinish =>
                  /\ chLastCall'.remaining = segmentCount - Cardinality(processedSegments)
                  /\ chLastCall'.remaining > 0
            /\ processedSegments' = processedSegments
            /\ segmentOutputs' = segmentOutputs
            /\ segmentCount' = segmentCount ]_vars

\* done() accepted after every one of several segments was rewritten, one
\* of them twice.
DispatcherDoneVerdictWitness ==
    /\ chPc = "dispatching"
    /\ chLastCall.tool = "done"
    /\ chLastCall.canFinish
    /\ segmentCount >= 2
    /\ rewroteStored

\* The k-th smallest element of a set of numbers.
KthSmallest(S, k) == CHOOSE x \in S : Cardinality({ y \in S : y < x }) = k - 1

\* C4: the assembled chapter text is, in ascending segment id, the last
\* recorded block of each id that was recorded, each id once, whatever
\* order and repetition the rewrites completed in.
AssembledInIdOrder ==
    chPc \in {"returned", "finished"} =>
        LET ids == DOMAIN lastRecorded
        IN  chapterOutput =
                [i \in 1..Cardinality(ids) |-> lastRecorded[KthSmallest(ids, i)]]

\* Rewrites completed out of id order, one of them replacing an earlier
\* rewrite of the same segment, and gap-fill added a segment.
AssembledInIdOrderWitness ==
    /\ chPc = "returned"
    /\ rewroteStored
    /\ Len(segmentOutputs) >= 3
    /\ \E i \in 1..(Len(segmentOutputs) - 1) : segmentOutputs[i].id > segmentOutputs[i + 1].id
    /\ \E i \in 1..Len(segmentOutputs) :
          segmentOutputs[i].title = AutoTitle(segmentOutputs[i].id)

\* C21 as stated: however the dispatch loop ended (accepted done(), the
\* agent stopping, the recursion limit, any other error), once the chapter
\* pass is over every segment has been rewritten.
GapFillAfterAnyLoopEnd ==
    (loopEnd # "none" /\ chPc \in {"returned", "finished", "thrown"}) =>
        (1..segmentCount) \subseteq processedSegments

\* C21, amended: when the dispatch loop ends by the agent stopping (with or
\* without an accepted done()) or by the recursion limit, gap-filling
\* follows: the segments absent from the processed set are listed, a rewrite
\* with the auto-derived title is attempted for each, and the pass returns
\* only when every segment is processed or its gap-fill rewrite failed. Any
\* other error of the loop is rethrown: the pass ends without gap-filling.
GapFillFollowsLoopEnd ==
    [][ /\ (chPc = "dispatching" /\ chPc' # "dispatching") =>
              IF loopEnd' \in {"resolved", "recursion_limit"}
              THEN /\ chPc' = "gapfill"
                   /\ Range(missedSegments') = (1..segmentCount) \ processedSegments
                   /\ processedSegments' = processedSegments
              ELSE /\ loopEnd' = "error"
                   /\ chPc' = "thrown"
                   /\ processedSegments' = processedSegments
                   /\ segmentOutputs' = segmentOutputs
        /\ (chPc = "gapfill" /\ writerCall'.from = "gapfill" /\ writerCall.from = "none") =>
              /\ writerCall'.id = Head(missedSegments)
              /\ writerCall'.id \notin processedSegments
              /\ writerCall'.title = AutoTitle(writerCall'.id)
        /\ (chPc = "gapfill" /\ chPc' = "returned") =>
              (1..segmentCount) \subseteq (processedSegments \cup gapFailed)
        /\ chPc = "thrown" => (chPc' = "thrown" \/ chPc' = "dispatching") ]_vars

\* The agent stopped without calling done() after rewriting one segment;
\* gap-fill rewrote the others, and the pass finished.
GapFillFollowsLoopEndWitness ==
    /\ chPc = "finished"
    /\ loopEnd = "resolved"
    /\ chLastCall.tool = "spawn_writer"
    /\ segmentCount >= 3
    /\ gapFailed = {}
    /\ \E i \in 1..Len(segmentOutputs) : segmentOutputs[i].title \in SceneTitles
    /\ Cardinality({ i \in 1..Len(segmentOutputs) :
                        segmentOutputs[i].title = AutoTitle(segmentOutputs[i].id) }) >= 2

\* C22: gap-fill is best-effort per segment: a failed rewrite of a missed
\* segment does not end the pass; the remaining missed segments are still
\* attempted, processOneChapter returns, and the assembled output holds, in
\* ascending id, exactly the segments whose rewrite succeeded, the failed
\* ones left out.
GapFillBestEffort ==
    /\ chPc = "thrown" => gapFailed = {}
    /\ gapFailed \cap processedSegments = {}
    /\ chPc \in {"returned", "finished"} =>
          LET kept == (1..segmentCount) \ gapFailed
          IN  /\ processedSegments = kept
              /\ Len(chapterOutput) = Cardinality(kept)
              /\ \A k \in 1..Len(chapterOutput) :
                    chapterOutput[k] = lastRecorded[KthSmallest(kept, k)]

\* The rewrite of the first missed segment failed, a later missed segment
\* was rewritten by gap-fill all the same, and processOneChapter returned.
GapFillBestEffortWitness ==
    /\ chPc = "finished"
    /\ gapFailed # {}
    /\ segmentCount >= 3
    /\ \E i \in 1..Len(segmentOutputs) :
          /\ segmentOutputs[i].title = AutoTitle(segmentOutputs[i].id)
          /\ \E f \in gapFailed : f < segmentOutputs[i].id
    /\ Len(chapterOutput) = segmentCount - Cardinality(gapFailed)
    /\ Len(chapterOutput) >= 2

\* C34: the store and the processed set agree. In every state of a chapter
\* pass the keys of segmentOutputs are exactly processedSegments and all of
\* them are ids of existing segments; a rewrite_segment call with an id that
\* names no segment, and a writer call that fails (from the dispatch loop or
\* from gap-fill), change neither the store nor the processed set.
StoreMatchesProcessed ==
    [][ /\ StoredIds' = processedSegments'
        /\ Len(segmentOutputs') = Cardinality(processedSegments')
        /\ processedSegments' \subseteq 1..segmentCount'
        /\ \A id \in {0, segmentCount + 1}, title \in SceneTitles :
              SpawnWriter(id, title) =>
                 UNCHANGED <<segmentOutputs, processedSegments>>
        /\ \A outcome \in WriterOutcomes \ GeneratedTexts :
              (SpawnWriterReturn(outcome) \/ GapFillReturn(outcome)) =>
                 UNCHANGED <<segmentOutputs, processedSegments>>
      ]_vars

\* The dispatcher has just called rewrite_segment with the id after the last
\* segment, with two segments in the store, one of them rewritten twice.
StoreMatchesProcessedWitness ==
    /\ chPc = "dispatching"
    /\ chLastCall.tool = "spawn_writer"
    /\ writerCall = NoWriterCall
    /\ segmentStarted = segmentCount + 1
    /\ Cardinality(processedSegments) = 2
    /\ Len(segmentOutputs) = 2
    /\ rewroteStored

\* C40: progress events match recorded rewrites. Every segment_done event
\* follows the segment_start of the same id, names an existing segment
\* (1..segmentCount), and carries the title and text the output store holds
\* for that id at that moment; a rewrite_segment call with an id that names
\* no segment emits no segment_done.
SegmentDoneMatchesStore ==
    [][ segmentDoneEvent' # NoSegmentDone =>
           /\ segmentDoneEvent'.id \in 1..segmentCount'
           /\ MapHas(segmentOutputs', segmentDoneEvent'.id)
           /\ MapGet(segmentOutputs', segmentDoneEvent'.id).title = segmentDoneEvent'.title
           /\ MapGet(segmentOutputs', segmentDoneEvent'.id).content = segmentDoneEvent'.text
           /\ segmentDoneEvent' # segmentDoneEvent =>
                 segmentStarted' = segmentDoneEvent'.id
      ]_vars

(***************************************************************************)
(* The chapter pass with the progress its code guarantees: the dispatch    *)
(* loop is cut off by recursionLimit (line 660), gap-fill, assembly and    *)
(* the tail of processOneChapter run on; an awaited writer call ends by    *)
(* itself only where a timer ends it.                                      *)
(***************************************************************************)
ChFrame == UNCHANGED <<rlmVars, spVars, segVars, fragVars, sessVars, twinVars, deepVars, mergeVars, guideVars, ttsVars, logVars, storeVars>>

\* agent.invoke ends: it resolves or rejects.
LoopEnds ==
    \/ \E how \in {"resolved", "recursion_limit"} : DispatchEnds(how) /\ ChFrame
    \/ DispatchThrows /\ ChFrame

\* The timer of an awaited writer call fires.
WriterTimerFires ==
    /\ WriterCallTimed
    /\ \/ SpawnWriterReturn("timeout") /\ ChFrame
       \/ GapFillReturn("timeout") /\ ChFrame

SpecChapterLive ==
    /\ InitChapter /\ [][NextChapter]_vars
    /\ SF_vars(LoopEnds)
    /\ WF_vars(WriterTimerFires)
    /\ WF_vars(GapFillCall /\ ChFrame)
    /\ WF_vars(Assemble /\ ChFrame)
    /\ WF_vars(FinishOneChapter /\ ChFrame)

\* C25 as stated, for the chapter pass: no external call blocks the pass for
\* ever: every awaited writer call ends with a result or a timeout error,
\* so a pass whose capability never responds still finishes or fails.
NoCallBlocksForever ==
    (chPc \in {"dispatching", "gapfill"}) ~> (chPc \in {"finished", "thrown"})

\* C27 as stated: every chapter pass goes through initialized, dispatching,
\* gap-filling, assembled in this order, each once; no rewrite is recorded
\* after assembly; processOneChapter emits chapter_done exactly once, after
\* assembly and after every segment event of the chapter.
ChapterPhaseOrderEveryPass ==
    /\ chPc \in {"finished", "thrown"} =>
          /\ chPhases = ChapterPhases
          /\ chapterDoneEvents = 1
    /\ chPc \in {"returned", "finished"} =>
          /\ chapterOutput = SortedOutput(segmentOutputs)
          /\ writerCall = NoWriterCall
    /\ ~segmentEventAfterDone

\* C27, amended: every chapter pass enters initialized, dispatching,
\* gap-filling, assembled in this order, each at most once, and a pass that
\* processOneChapter finishes has entered all four; no rewrite is recorded
\* after assembly; processOneChapter emits chapter_done exactly once, after
\* assembly and after every segment event of the chapter. A pass whose
\* dispatch loop fails with an error other than the recursion limit ends in
\* dispatching: it is neither gap-filled nor assembled, and processOneChapter
\* throws without emitting chapter_done.
ChapterPhaseOrder ==
    /\ \E k \in 0..Len(ChapterPhases) : chPhases = SubSeq(ChapterPhases, 1, k)
    /\ chPc = "finished" =>
          /\ chPhases = ChapterPhases
          /\ chapterDoneEvents = 1
    /\ chPc = "thrown" =>
          /\ chPhases = SubSeq(ChapterPhases, 1, 2)
          /\ loopEnd = "error"
    /\ chPc # "finished" => chapterDoneEvents = 0
    /\ chPc \in {"returned", "finished"} =>
          /\ chapterOutput = SortedOutput(segmentOutputs)
          /\ writerCall = NoWriterCall
    /\ ~segmentEventAfterDone

\* A pass of several segments finished: the agent rewrote some, hit the
\* recursion limit, gap-fill rewrote others and failed on one, and
\* chapter_done was emitted.
ChapterPhaseOrderWitness ==
    /\ chPc = "finished"
    /\ chapterDoneEvents = 1
    /\ chPhases = ChapterPhases
    /\ loopEnd = "recursion_limit"
    /\ segmentCount >= 3
    /\ gapFailed # {}
    /\ \E i \in 1..Len(segmentOutputs) : segmentOutputs[i].title \in SceneTitles
    /\ \E i \in 1..Len(segmentOutputs) :
          segmentOutputs[i].title = AutoTitle(segmentOutputs[i].id)

(***************************************************************************)
(* getCollectedChapters as a function of the collected fragments.          *)
(***************************************************************************)
\* Fragments of two titles over chunk ranges that touch, overlap, contain
\* one another or leave a gap, with summaries that are empty, equal, or
\* contained in one another.
FragmentChoices ==
    { Fragment(1, 1, "A", <<"p">>),
      Fragment(2, 3, "A", <<"p", "q">>),
      Fragment(1, 3, "A", <<"p", "q">>),
      Fragment(3, 3, "A", <<"p">>),
      Fragment(1, 1, "B", <<"p">>),
      Fragment(2, 3, "B", <<>>),
      Fragment(1, 3, "B", <<"q">>),
      Fragment(3, 3, "B", <<>>) }

\* The fragment lists a session may have collected, in collection order.
FragmentLists ==
    { PushChapters(<<>>, fs) : fs \in TextsUpTo(FragmentChoices, MaxFragments) }

FragInit ==
    /\ fragPc = "input"
    /\ fragCollected \in FragmentLists
    /\ fragChapters = <<>>

GetCollectedChaptersCall ==
    /\ fragPc = "input"
    /\ fragChapters' = getCollectedChapters(fragCollected)
    /\ fragPc' = "done"
    /\ UNCHANGED fragCollected

InitFrag ==
    FragInit /\ RlmIdle /\ minCoveragePct = 80 /\ SpIdle /\ SegIdle /\ ChIdle /\ SessIdle /\ TwinIdle /\ DeepIdle /\ MergeIdle /\ GuideIdle /\ TtsIdle /\ LogIdle /\ StoreIdle

NextFrag == GetCollectedChaptersCall /\ UNCHANGED <<rlmVars, spVars, segVars, chVars, sessVars, twinVars, deepVars, mergeVars, guideVars, ttsVars, logVars, storeVars>>

SpecFrag == InitFrag /\ [][NextFrag]_vars

(***************************************************************************)
(* Claims about the fragment merge (checked under SpecFrag).               *)
(***************************************************************************)
\* The summaries an entry's summary was joined from.
RECURSIVE SummaryItems(_)
SummaryItems(summary) ==
    IF summary = <<>> THEN <<>>
    ELSE LET seps == { i \in 1..Len(summary) : summary[i] = SEP }
         IN  IF seps = {} THEN <<summary>>
             ELSE LET k == SetMin(seps)
                  IN  <<SubSeq(summary, 1, k - 1)>> \o
                      (IF k = Len(summary) THEN << <<>> >>
                       ELSE SummaryItems(SubSeq(summary, k + 1, Len(summary))))

\* Two fragments whose ranges touch or overlap: the one that starts later
\* starts at most one chunk after the end of the other.
RangesTouch(f, g) ==
    IF f.chunkStart <= g.chunkStart
    THEN g.chunkStart <= f.chunkEnd + 1
    ELSE f.chunkStart <= g.chunkEnd + 1

\* The entry spans its fragments: smallest chunkStart to largest chunkEnd.
EntrySpansParts(e) ==
    /\ e.parts # {}
    /\ e.chunkStart = SetMin({ fragCollected[i].chunkStart : i \in e.parts })
    /\ e.chunkEnd = SetMax({ fragCollected[i].chunkEnd : i \in e.parts })

\* Position of collected fragment i in chunkStart order.
SortedPosition(i) ==
    LET sorted == SortByStart(fragCollected)
    IN  CHOOSE k \in 1..Len(sorted) : sorted[k].parts = {i}

\* The list after the same-title merge pass, before any consolidation.
FirstPass == MergeSorted(<<>>, SortByStart(fragCollected))

\* C16 as stated: any two collected fragments with one title whose ranges
\* touch or overlap are in a single entry; every entry spans the smallest
\* chunkStart to the largest chunkEnd of its fragments, and each distinct
\* summary of its fragments appears in its summary once.
FragmentMergeSpans ==
    fragPc = "done" =>
        /\ \A i, j \in 1..Len(fragCollected) :
              (/\ i # j
               /\ fragCollected[i].title = fragCollected[j].title
               /\ RangesTouch(fragCollected[i], fragCollected[j]))
              => \E k \in 1..Len(fragChapters) : {i, j} \subseteq fragChapters[k].parts
        /\ \A k \in 1..Len(fragChapters) :
              LET e == fragChapters[k]
                  items == SummaryItems(e.summary)
              IN  /\ EntrySpansParts(e)
                  /\ \A i \in e.parts :
                        fragCollected[i].summary # <<>> =>
                            Cardinality({ n \in 1..Len(items) :
                                            items[n] = fragCollected[i].summary }) = 1

\* C16, amended: two fragments with one title that follow one another in
\* chunkStart order and touch or overlap are in a single entry. When the
\* merge pass leaves at most MergedCeiling entries, every entry stands for
\* a run of same-titled fragments consecutive in chunkStart order, spans
\* the smallest chunkStart to the largest chunkEnd of the run, is followed by
\* an entry it could not merge with, and its summary is the summaries of
\* the run, each contained in it, none joined twice.
FragmentMergeAdjacent ==
    fragPc = "done" =>
        LET sorted == SortByStart(fragCollected)
        IN  /\ \A n \in 1..(Len(sorted) - 1) :
                  (/\ sorted[n].title = sorted[n + 1].title
                   /\ sorted[n + 1].chunkStart <= sorted[n].chunkEnd + 1)
                  => \E k \in 1..Len(fragChapters) :
                        sorted[n].parts \cup sorted[n + 1].parts \subseteq fragChapters[k].parts
            /\ Len(FirstPass) <= MergedCeiling =>
                  /\ \A k \in 1..Len(fragChapters) :
                        LET e == fragChapters[k]
                            items == SummaryItems(e.summary)
                            positions == { SortedPosition(i) : i \in e.parts }
                        IN  /\ EntrySpansParts(e)
                            /\ positions = SetMin(positions)..SetMax(positions)
                            /\ \A i \in e.parts :
                                  /\ fragCollected[i].title = e.title
                                  /\ Includes(e.summary, fragCollected[i].summary)
                            /\ \A n \in 1..Len(items) :
                                  \E i \in e.parts : fragCollected[i].summary = items[n]
                            /\ \A n, m \in 1..Len(items) :
                                  n # m => items[n] # items[m]
                  /\ \A k \in 1..(Len(fragChapters) - 1) :
                        LET e == fragChapters[k]
                            g == fragChapters[k + 1]
                        IN  ~(e.title = g.title /\ g.chunkStart <= e.chunkEnd + 1)
                  /\ UNION { fragChapters[k].parts : k \in 1..Len(fragChapters) }
                        = 1..Len(fragCollected)

\* Three fragments of one title, collected out of chunkStart order, merged
\* into one entry whose end comes from an earlier fragment and whose
\* summary joins two texts and skips a third already contained.
FragmentMergeAdjacentWitness ==
    /\ fragPc = "done"
    /\ Len(fragChapters) = 1
    /\ fragChapters[1].parts = {1, 2, 3}
    /\ fragCollected[1].chunkStart > fragCollected[2].chunkStart
    /\ Len(SummaryItems(fragChapters[1].summary)) = 2
    /\ \A i \in 1..3 : fragCollected[i].summary # <<>>

\* C17 as stated: for any number of collected fragments, every entry of the
\* returned list combines only fragments of one and the same title.
DifferentTitlesNeverMerge ==
    fragPc = "done" =>
        \A k \in 1..Len(fragChapters) :
            \A i, j \in fragChapters[k].parts :
                fragCollected[i].title = fragCollected[j].title

\* C17, amended: when the same-title merge pass leaves at most
\* MergedCeiling entries, every entry of the returned list combines only
\* fragments of one and the same title, also when ranges of differently
\* titled fragments touch or overlap.
DifferentTitlesMergeOnlyAboveCeiling ==
    (fragPc = "done" /\ Len(FirstPass) <= MergedCeiling) =>
        \A k \in 1..Len(fragChapters) :
            \A i, j \in fragChapters[k].parts :
                /\ fragCollected[i].title = fragCollected[j].title
                /\ fragCollected[i].title = fragChapters[k].title

\* Two entries of different titles whose ranges touch or overlap stayed
\* apart, one of them merged from two fragments.
DifferentTitlesMergeOnlyAboveCeilingWitness ==
    /\ fragPc = "done"
    /\ Len(fragChapters) = 2
    /\ fragChapters[1].title # fragChapters[2].title
    /\ fragChapters[2].chunkStart <= fragChapters[1].chunkEnd + 1
    /\ \E k \in 1..2 : Cardinality(fragChapters[k].parts) = 2

\* The chunks an entry spans.
SpanOf(e) == e.chunkEnd - e.chunkStart + 1

\* C31: when the same-title merge pass leaves more than MergedCeiling
\* entries, every entry of the returned list but the last spans at least
\* MinChapterSpan chunks, the entries are in chunkStart order, each is made
\* of consecutive entries of the first pass, and there are no more entries
\* than the first pass left; with MergedCeiling entries or fewer the list
\* of the first pass is returned as it is.
SecondConsolidationPass ==
    fragPc = "done" =>
        IF Len(FirstPass) > MergedCeiling
        THEN /\ \A k \in 1..(Len(fragChapters) - 1) :
                   /\ SpanOf(fragChapters[k]) >= MinChapterSpan
                   /\ fragChapters[k].chunkStart <= fragChapters[k + 1].chunkStart
             /\ Len(fragChapters) <= Len(FirstPass)
             /\ Len(fragChapters) >= 1
             /\ \A i \in 1..Len(fragCollected) :
                   \E k \in 1..Len(fragChapters) :
                      /\ i \in fragChapters[k].parts
                      /\ \A m \in 1..Len(fragChapters) :
                            i \in fragChapters[m].parts => m = k
             /\ \A k \in 1..Len(fragChapters), i, j \in 1..Len(fragCollected) :
                   (/\ i \in fragChapters[k].parts
                    /\ j \in fragChapters[k].parts
                    /\ SortedPosition(i) <= SortedPosition(j))
                   => \A h \in 1..Len(fragCollected) :
                         (SortedPosition(i) <= SortedPosition(h)
                          /\ SortedPosition(h) <= SortedPosition(j))
                         => h \in fragChapters[k].parts
        ELSE fragChapters = FirstPass

\* The first pass left four entries; two narrow ones were merged forward
\* into a wide one, and the wide entry that follows stayed apart.
SecondConsolidationPassWitness ==
    /\ fragPc = "done"
    /\ Len(FirstPass) > MergedCeiling
    /\ Len(fragChapters) = 2
    /\ Cardinality(fragChapters[1].parts) = 3
    /\ SpanOf(fragChapters[1]) >= MinChapterSpan
    /\ \E i \in fragChapters[1].parts : SpanOf(fragCollected[i]) < MinChapterSpan

(***************************************************************************)
(* DeepReader.initSession behind POST /api/read/init: the chapters         *)
(* RLMReader.read returned are mapped onto the chunks of the document.     *)
(* A chunk is its length; a chapter's content is the chunks it was joined  *)
(* from.                                                                   *)
(***************************************************************************)
MaxDocChunks == 2
MaxPlanFragments == 2

\* Line 350: ch.content.length >= 50
MinChapterChars == 50

\* Lines 333 and 338: the length of '\n\n'.
SeparatorLen == 2

\* Lengths of a chunk: at the minimum chapter length, and below it alone
\* but reaching it when joined with a chunk of the same length.
ChunkLenChoices == {MinChapterChars \div 2 - 1, MinChapterChars}

DocChoices == UNION { [1..n -> ChunkLenChoices] : n \in 1..MaxDocChunks }

\* Fragments the delegates may have emitted for a document of n chunks:
\* single chunks, a range, ranges reaching outside the document on either
\* side, a reversed range, ranges wholly outside, a negative end.
PlanFragments(n) ==
    { Fragment(1, 1, "A", <<>>),
      Fragment(2, 2, "B", <<>>),
      Fragment(1, 2, "A", <<>>),
      Fragment(2, n + 2, "B", <<>>),
      Fragment(-1, 1, "A", <<>>),
      Fragment(2, 1, "B", <<>>),
      Fragment(n + 1, n + 1, "A", <<>>),
      Fragment(n + 2, n + 2, "A", <<>>),
      Fragment(1, -1, "B", <<>>) }

\* result.chapters of reader.read for those fragments (the locally merged
\* list), or none when the read failed.
PlanChoices(n) ==
    { getCollectedChapters(PushChapters(<<>>, fs)) :
        fs \in TextsUpTo(PlanFragments(n), MaxPlanFragments) }

\* Array.prototype.slice(begin, end) for begin >= 0, as the chunk numbers
\* (1-based) it selects: a negative end counts from the end of the array.
SliceChunks(n, begin, end) ==
    LET b == MinOf(begin, n)
        e == IF end < 0 THEN MaxOf(n + end, 0) ELSE MinOf(end, n)
    IN  [i \in 1..(e - b) |-> b + i]

RECURSIVE SumLens(_, _)
SumLens(lens, chunkNumbers) ==
    IF chunkNumbers = <<>> THEN 0
    ELSE lens[Head(chunkNumbers)] + SumLens(lens, Tail(chunkNumbers))

\* chunks.slice(...).join('\n\n').length
JoinedLen(lens, chunkNumbers) ==
    IF chunkNumbers = <<>> THEN 0
    ELSE SumLens(lens, chunkNumbers) + SeparatorLen * (Len(chunkNumbers) - 1)

\* Lines 336-339: chunks[j].length of a j past the array is a TypeError.
CharStartThrows(lens, ch) == MaxOf(1, ch.chunkStart) - 1 > Len(lens)

\* Lines 336-339: the running offset of chunk `start`.
CharStartOf(lens, start) ==
    SumLens(lens, [j \in 1..(start - 1) |-> j]) + SeparatorLen * (start - 1)

\* Lines 330-349: one chapter of the plan mapped onto the chunks.
MapChapter(lens, ch, i) ==
    LET start == MaxOf(1, ch.chunkStart)
        end == MinOf(Len(lens), ch.chunkEnd)
        contentChunks == SliceChunks(Len(lens), start - 1, end)
        charStart == CharStartOf(lens, start)
    IN  [index |-> i, title |-> ch.title, contentChunks |-> contentChunks,
         contentLen |-> JoinedLen(lens, contentChunks),
         charStart |-> charStart,
         charEnd |-> charStart + JoinedLen(lens, contentChunks)]

\* Line 350: the filter.
KeepsChapter(ch) == ch.contentLen >= MinChapterChars

\* Lines 329-350.
MappedChapters(lens, plan) ==
    SelectSeq([i \in 1..Len(plan) |-> MapChapter(lens, plan[i], i - 1)], KeepsChapter)

\* An initSession without the test of line 749.
PlanIsEmptyNever(mapped) == FALSE

\* Line 749: this.chapters.length === 0
PlanIsEmpty(mapped) == Len(mapped) = 0

\* The route makes a DeepReader for the request and calls initSession;
\* generateContextAndChapters has the result of reader.read (lines 322-325)
\* and the chunks (line 329).
InitSessionCall(lens, plan) ==
    /\ sessPc = "idle"
    /\ sessPc' = "read"
    /\ docChunks' = lens
    /\ rlmChapters' = plan
    /\ sessionChapters' = <<>>
    /\ sessError' = "none"
    /\ sessionReturned' = FALSE
    /\ sessionStored' = FALSE
    /\ outputFileCreated' = FALSE

\* Lines 330-350 and 745-747: the chapters are mapped and filtered, or the
\* mapping throws and the route reports the error.
MapChapters ==
    /\ sessPc = "read"
    /\ IF \E i \in 1..Len(rlmChapters) : CharStartThrows(docChunks, rlmChapters[i])
       THEN /\ sessPc' = "failed"
            /\ sessError' = "type_error"
            /\ UNCHANGED sessionChapters
       ELSE /\ sessPc' = "mapped"
            /\ sessionChapters' = MappedChapters(docChunks, rlmChapters)
            /\ UNCHANGED sessError
    /\ UNCHANGED <<docChunks, rlmChapters, sessionReturned, sessionStored, outputFileCreated>>

\* Lines 749-786: no chapter throws; otherwise the output file is written
\* and the session returned.
InitSessionFinish ==
    /\ sessPc = "mapped"
    /\ IF PlanIsEmpty(sessionChapters)
       THEN /\ sessPc' = "failed"
            /\ sessError' = "no_chapters"
            /\ UNCHANGED <<sessionReturned, outputFileCreated>>
       ELSE /\ sessPc' = "returned"
            /\ outputFileCreated' = TRUE
            /\ sessionReturned' = TRUE
            /\ UNCHANGED sessError
    /\ UNCHANGED <<docChunks, rlmChapters, sessionChapters, sessionStored>>

\* The route, line 268 of part_007: setSession(session).
StoreSession ==
    /\ sessPc = "returned"
    /\ sessPc' = "stored"
    /\ sessionStored' = TRUE
    /\ UNCHANGED <<docChunks, rlmChapters, sessionChapters, sessError,
                   sessionReturned, outputFileCreated>>

InitSession ==
    SessIdle /\ RlmIdle /\ minCoveragePct = 80 /\ SpIdle /\ SegIdle /\ ChIdle /\ FragIdle /\ TwinIdle /\ DeepIdle /\ MergeIdle /\ GuideIdle /\ TtsIdle /\ LogIdle /\ StoreIdle

NextSession ==
    \/ \E lens \in DocChoices : \E plan \in PlanChoices(Len(lens)) :
          InitSessionCall(lens, plan) /\ UNCHANGED <<rlmVars, spVars, segVars, chVars, fragVars, twinVars, deepVars, mergeVars, guideVars, ttsVars, logVars, storeVars>>
    \/ MapChapters /\ UNCHANGED <<rlmVars, spVars, segVars, chVars, fragVars, twinVars, deepVars, mergeVars, guideVars, ttsVars, logVars, storeVars>>
    \/ InitSessionFinish /\ UNCHANGED <<rlmVars, spVars, segVars, chVars, fragVars, twinVars, deepVars, mergeVars, guideVars, ttsVars, logVars, storeVars>>
    \/ StoreSession /\ UNCHANGED <<rlmVars, spVars, segVars, chVars, fragVars, twinVars, deepVars, mergeVars, guideVars, ttsVars, logVars, storeVars>>

SpecSession == InitSession /\ [][NextSession]_vars

(***************************************************************************)
(* Claims about the session (checked under SpecSession).                   *)
(***************************************************************************)
\* C15: when no chapter of the minimum length is recognised, initSession
\* throws: no session object is returned or stored and no output file is
\* written; a session that is returned or stored has a chapter.
NoSessionWithoutChapters ==
    /\ (sessPc \in {"returned", "stored", "failed"} /\ sessionChapters = <<>>) =>
          /\ sessPc = "failed"
          /\ ~sessionReturned
          /\ ~sessionStored
          /\ ~outputFileCreated
    /\ sessionStored => sessionReturned
    /\ outputFileCreated => sessionReturned
    /\ sessionReturned => sessionChapters # <<>>

\* The delegates emitted fragments, every mapped chapter was too short, and
\* initSession threw.
NoSessionWithoutChaptersWitness ==
    /\ sessPc = "failed"
    /\ sessError = "no_chapters"
    /\ rlmChapters # <<>>
    /\ ~sessionReturned /\ ~sessionStored /\ ~outputFileCreated

\* Length of the document as the chunks joined by '\n\n'.
JoinedDocLen == JoinedLen(docChunks, [j \in 1..Len(docChunks) |-> j])

\* C18: the chapters of a session are in ascending order and their
\* [charStart, charEnd) ranges partition the document: the first starts at
\* 0, each starts where the one before ends, the last ends at the end.
ChaptersPartition ==
    sessionReturned =>
        /\ sessionChapters[1].charStart = 0
        /\ \A k \in 1..(Len(sessionChapters) - 1) :
              sessionChapters[k + 1].charStart = sessionChapters[k].charEnd
        /\ sessionChapters[Len(sessionChapters)].charEnd = JoinedDocLen

\* The chunks chunkStart..chunkEnd clamped to [1, n].
ClampedRange(n, ch) ==
    LET lo == MaxOf(1, ch.chunkStart)
        hi == MinOf(n, ch.chunkEnd)
    IN  [i \in 1..(hi - lo + 1) |-> lo + i - 1]

\* C19: every chapter of a returned session has at least MinChapterChars
\* characters, taken from the chunks chunkStart..chunkEnd clamped to
\* [1, chunkCount], and charEnd - charStart is the content length; a
\* fragment whose mapped content is shorter, a reversed range or a range
\* outside the document included, is discarded (and does not fail the
\* session).
MinimumChapterLength ==
    /\ sessError # "type_error"
    /\ sessionReturned =>
          /\ \A k \in 1..Len(sessionChapters) :
                LET c == sessionChapters[k]
                IN  /\ c.contentLen >= MinChapterChars
                    /\ c.charEnd - c.charStart = c.contentLen
                    /\ c.contentChunks = ClampedRange(Len(docChunks), rlmChapters[c.index + 1])
          /\ \A i \in 1..Len(rlmChapters) :
                JoinedLen(docChunks, ClampedRange(Len(docChunks), rlmChapters[i]))
                    < MinChapterChars
                => \A k \in 1..Len(sessionChapters) : sessionChapters[k].index # i - 1

(***************************************************************************)
(* Two RLMReader instances reading the same document and executing the     *)
(* same tool calls. The first has checkpointing disabled; the second has   *)
(* any checkpoint configuration and any state of the checkpoint store.     *)
(* totalChunks and minCoveragePct are those of the common document / task. *)
(***************************************************************************)
\* Chunk counts of the common document: few, and both sides of the
\* "totalChunks > 10" test.
TwinChunkChoices == {1, 10, MaxChunks}

StoreStates == {"none", "found", "failed"}

\* tryRestoreFromCheckpoint, lines 252-274: false when checkpointing is
\* disabled (253) or the lookup throws (270-273), otherwise whether the
\* store lists a checkpoint for the thread.
tryRestoreFromCheckpoint(enableCheckpoint, store) == enableCheckpoint /\ store = "found"

\* A read() that keeps the covered set when it found history.
CoveredAtStartResumes(previous, hasHistory) == IF hasHistory THEN previous ELSE {}

\* Lines 699 and 731-734: readChunksSet.clear() before the lookup; hasHistory
\* is only logged.
CoveredAtStart(previous, hasHistory) == {}

\* read(), lines 696-735, for one instance.
StartRun(run, store) ==
    LET hasHistory == tryRestoreFromCheckpoint(run.enableCheckpoint, store)
    IN  [run EXCEPT !.store = store,
                    !.hasHistory = hasHistory,
                    !.leftover = (run.readChunksSet # {}),
                    !.readChunksSet = CoveredAtStart(run.readChunksSet, hasHistory),
                    !.outputLen = 0,
                    !.verdict = "none"]

TwinFrame == UNCHANGED <<rlmPc, readChunksSet, outputLen, minCoveragePct, pendingIndexes,
                         lastCall, rlmResult, collectedChapterSegments, orchestration>>

TwinReadStart(n, store) ==
    /\ twinPc \in {"idle", "returned"}
    /\ twinPc' = "running"
    /\ twinLastCall' = "read"
    /\ totalChunks' = n
    /\ runs' = <<StartRun(runs[1], store), StartRun(runs[2], store)>>
    /\ TwinFrame

TwinReadChunk(index) ==
    /\ twinPc = "running"
    /\ twinLastCall' = "read_chunk"
    /\ runs' = [i \in 1..2 |->
                   [runs[i] EXCEPT !.readChunksSet = ReadChunkCovered(@, index)]]
    /\ UNCHANGED <<twinPc, totalChunks>>
    /\ TwinFrame

TwinSpawnReader(indexes) ==
    /\ twinPc = "running"
    /\ twinLastCall' = "spawn_reader"
    /\ runs' = [i \in 1..2 |->
                   [runs[i] EXCEPT !.readChunksSet = SpawnReaderCovered(@, indexes)]]
    /\ UNCHANGED <<twinPc, totalChunks>>
    /\ TwinFrame

TwinUpdateOutput(len) ==
    /\ twinPc = "running"
    /\ twinLastCall' = "update_output"
    /\ runs' = [i \in 1..2 |-> [runs[i] EXCEPT !.outputLen = len]]
    /\ UNCHANGED <<twinPc, totalChunks>>
    /\ TwinFrame

TwinDone ==
    /\ twinPc = "running"
    /\ twinLastCall' = "done"
    /\ runs' = [i \in 1..2 |->
                   [runs[i] EXCEPT !.verdict =
                       DoneVerdict(totalChunks, Cardinality(runs[i].readChunksSet),
                                   minCoveragePct, runs[i].outputLen)]]
    /\ UNCHANGED <<twinPc, totalChunks>>
    /\ TwinFrame

\* agent.invoke ended; read() returned.
TwinReturn ==
    /\ twinPc = "running"
    /\ twinPc' = "returned"
    /\ UNCHANGED <<twinLastCall, runs, totalChunks>>
    /\ TwinFrame

InitTwin ==
    /\ RlmIdle /\ minCoveragePct \in MinCoverageChoices
    /\ twinPc = "idle"
    /\ twinLastCall = "none"
    /\ \E enable \in BOOLEAN : runs = <<IdleRun(FALSE), IdleRun(enable)>>
    /\ SpIdle /\ SegIdle /\ ChIdle /\ FragIdle /\ SessIdle /\ DeepIdle /\ MergeIdle /\ GuideIdle /\ TtsIdle /\ LogIdle /\ StoreIdle

NextTwin ==
    \/ \E n \in TwinChunkChoices, store \in StoreStates :
          TwinReadStart(n, store) /\ UNCHANGED <<spVars, segVars, chVars, fragVars, sessVars, deepVars, mergeVars, guideVars, ttsVars, logVars, storeVars>>
    \/ \E index \in ReadIndexChoices(totalChunks) :
          TwinReadChunk(index) /\ UNCHANGED <<spVars, segVars, chVars, fragVars, sessVars, deepVars, mergeVars, guideVars, ttsVars, logVars, storeVars>>
    \/ \E indexes \in IndexLists(totalChunks) :
          TwinSpawnReader(indexes) /\ UNCHANGED <<spVars, segVars, chVars, fragVars, sessVars, deepVars, mergeVars, guideVars, ttsVars, logVars, storeVars>>
    \/ \E len \in OutputLenChoices :
          TwinUpdateOutput(len) /\ UNCHANGED <<spVars, segVars, chVars, fragVars, sessVars, deepVars, mergeVars, guideVars, ttsVars, logVars, storeVars>>
    \/ TwinDone /\ UNCHANGED <<spVars, segVars, chVars, fragVars, sessVars, deepVars, mergeVars, guideVars, ttsVars, logVars, storeVars>>
    \/ TwinReturn /\ UNCHANGED <<spVars, segVars, chVars, fragVars, sessVars, deepVars, mergeVars, guideVars, ttsVars, logVars, storeVars>>

SpecTwin == InitTwin /\ [][NextTwin]_vars

(***************************************************************************)
(* Claims about the checkpoint (checked under SpecTwin).                   *)
(***************************************************************************)
\* C23: the checkpoint never alters gating: given the same document and the
\* same tool calls, the covered set and every done() decision are the same
\* whether checkpointing is enabled or not, whether or not history exists
\* for the session identity and whether or not the lookup fails; and
\* coverage starts empty.
CheckpointNeverAltersGating ==
    /\ runs[1].readChunksSet = runs[2].readChunksSet
    /\ runs[1].verdict = runs[2].verdict
    /\ runs[1].outputLen = runs[2].outputLen
    /\ twinLastCall = "read" => \A i \in 1..2 : runs[i].readChunksSet = {}

\* done() rejected for coverage in both instances, the second of which has
\* checkpointing enabled and found history when its read began with chunks
\* still marked from an earlier read.
CheckpointNeverAltersGatingWitness ==
    /\ twinPc = "running"
    /\ twinLastCall = "done"
    /\ ~runs[1].hasHistory
    /\ runs[2].enableCheckpoint /\ runs[2].hasHistory /\ runs[2].leftover
    /\ runs[2].readChunksSet # {}
    /\ runs[2].verdict = "reject_coverage"
    /\ totalChunks > 10

(***************************************************************************)
(* DeepReader.read behind POST /api/read (mode deep): the chapter loop,    *)
(* the Markdown output stream and the TTS file. A text is a sequence of    *)
(* lines; a line is [kind, chapter, text] with kind "h1", "meta" (a quote  *)
(* line of the file header), "rule", "h2", "h3", "text" (rewritten text),  *)
(* "note" (the failure note) or "spoken" (a cleaned line). Blank lines are *)
(* left out.                                                               *)
(***************************************************************************)
MaxDeepChapters == 3

Line(kind, chapter, text) == [kind |-> kind, chapter |-> chapter, text |-> text]

\* Lines 867-872: the file header.
FileHeader == << Line("h1", 0, "title"), Line("meta", 0, "info"), Line("rule", 0, "") >>

\* Lines 716-719: the assembled text of a chapter, "### title" and the
\* rewritten content of its segments (one segment here).
AssembledText(chapter, text) == << Line("h3", chapter, "scene"), Line("text", chapter, text) >>

\* cleanForTTS, lines 42-65: heading lines, rules and quote lines are
\* removed; stage directions and bold marks are taken out of the others.
IsMarkdownLine(line) == line.kind \in {"h1", "h2", "h3", "rule", "meta"}

RECURSIVE cleanForTTS(_)
cleanForTTS(lines) ==
    IF lines = <<>> THEN <<>>
    ELSE IF IsMarkdownLine(Head(lines)) THEN cleanForTTS(Tail(lines))
         ELSE << [Head(lines) EXCEPT !.kind = "spoken"] >> \o cleanForTTS(Tail(lines))

\* read(), lines 845-872: the chapters are planned, the stream is opened and
\* the header written; no chapter is an error (line 850).
DeepReadStart(n) ==
    /\ deepPc = "idle"
    /\ deepChapterCount' = n
    /\ deepOutput' = <<>>
    /\ ttsFile' = <<>>
    /\ deepProcessed' = <<>>
    /\ IF n = 0
       THEN /\ deepPc' = "thrown"
            /\ deepIndex' = 0
            /\ outputStream' = <<>>
       ELSE /\ deepPc' = "loop"
            /\ deepIndex' = 1
            /\ outputStream' = FileHeader

\* Lines 887-889 and 591-596: the chapter heading is written and
\* processChapterWithAgent starts, emptying this.output.
DeepChapterStart ==
    /\ deepPc = "loop"
    /\ deepIndex <= deepChapterCount
    /\ deepPc' = "chapter"
    /\ outputStream' = Append(outputStream, Line("h2", deepIndex, "chapter"))
    /\ deepOutput' = <<>>
    /\ UNCHANGED <<deepChapterCount, deepIndex, ttsFile, deepProcessed>>

\* Lines 889-903: processChapterWithAgent returned the assembled text (it
\* is in this.output, line 721) and the rule is written; or it threw and
\* the failure note is written.
DeepChapterEnd(outcome) ==
    /\ deepPc = "chapter"
    /\ deepPc' = "loop"
    /\ deepIndex' = deepIndex + 1
    /\ IF outcome \in GeneratedTexts
       THEN /\ deepOutput' = AssembledText(deepIndex, outcome)
            /\ outputStream' = Append(outputStream, Line("rule", deepIndex, ""))
            /\ deepProcessed' = Append(deepProcessed, [chapter |-> deepIndex, text |-> outcome])
       ELSE /\ outputStream' = outputStream \o
                   << Line("note", deepIndex, "failed"), Line("rule", deepIndex, "") >>
            /\ UNCHANGED <<deepOutput, deepProcessed>>
    /\ UNCHANGED <<deepChapterCount, ttsFile>>

\* Lines 906-935: the stream is closed, the TTS file written from
\* this.output, and read() returns.
DeepReadFinish ==
    /\ deepPc = "loop"
    /\ deepIndex > deepChapterCount
    /\ deepPc' = "done"
    /\ ttsFile' = cleanForTTS(deepOutput)
    /\ UNCHANGED <<deepChapterCount, deepIndex, outputStream, deepOutput, deepProcessed>>

InitDeep ==
    DeepIdle /\ RlmIdle /\ minCoveragePct = 80 /\ SpIdle /\ SegIdle /\ ChIdle /\ FragIdle /\ SessIdle /\ TwinIdle /\ MergeIdle /\ GuideIdle /\ TtsIdle /\ LogIdle /\ StoreIdle

DeepFrame == UNCHANGED <<rlmVars, spVars, segVars, chVars, fragVars, sessVars, twinVars, mergeVars, guideVars, ttsVars, logVars, storeVars>>

NextDeep ==
    \/ \E n \in 0..MaxDeepChapters : DeepReadStart(n) /\ DeepFrame
    \/ DeepChapterStart /\ DeepFrame
    \/ \E outcome \in GeneratedTexts \cup {"throws"} : DeepChapterEnd(outcome) /\ DeepFrame
    \/ DeepReadFinish /\ DeepFrame

SpecDeep == InitDeep /\ [][NextDeep]_vars

(***************************************************************************)
(* Claims about the full deep read (checked under SpecDeep).               *)
(***************************************************************************)
\* The rewritten text of the processed chapters, chapter after chapter.
RECURSIVE RewrittenText(_)
RewrittenText(processed) ==
    IF processed = <<>> THEN <<>>
    ELSE AssembledText(Head(processed).chapter, Head(processed).text)
             \o RewrittenText(Tail(processed))

\* C26 as stated: after DeepReader.read finishes, the Markdown file holds,
\* under each chapter heading and in chapter order, the assembled text of
\* every chapter processed successfully, and the TTS file is the cleaned
\* form of the rewritten text of all those chapters.
DeepReadOutputComplete ==
    deepPc = "done" =>
        /\ \A p \in 1..Len(deepProcessed) :
              \E k \in 1..Len(outputStream) :
                 /\ outputStream[k] = Line("h2", deepProcessed[p].chapter, "chapter")
                 /\ k + 2 <= Len(outputStream)
                 /\ SubSeq(outputStream, k + 1, k + 2) =
                        AssembledText(deepProcessed[p].chapter, deepProcessed[p].text)
        /\ ttsFile = cleanForTTS(RewrittenText(deepProcessed))

(***************************************************************************)
(* mergeChaptersWithLLM as a function of the locally merged list and of    *)
(* what the merge call comes to.                                           *)
(***************************************************************************)
\* The chunk count of the document the lists are about.
MergeDocChunks == MaxSpan

\* Locally merged lists: what getCollectedChapters returns.
RawChapterLists == { getCollectedChapters(collected) : collected \in FragmentLists }

MergeInit ==
    /\ mergePc = "input"
    /\ mergeRaw \in RawChapterLists
    /\ mergeResponse = NoMergeCall
    /\ mergeResult = <<>>

MergeChaptersCall(response) ==
    /\ mergePc = "input"
    /\ mergePc' = "done"
    /\ mergeResponse' = MergeCall(mergeRaw, response)
    /\ mergeResult' = mergeChaptersWithLLM(mergeRaw, response)
    /\ UNCHANGED mergeRaw

InitMerge ==
    MergeInit /\ RlmIdle /\ minCoveragePct = 80 /\ SpIdle /\ SegIdle /\ ChIdle /\ FragIdle /\ SessIdle /\ TwinIdle /\ DeepIdle /\ GuideIdle /\ TtsIdle /\ LogIdle /\ StoreIdle

NextMerge ==
    \E response \in MergeResponses(MergeDocChunks) :
        MergeChaptersCall(response) /\ UNCHANGED <<rlmVars, spVars, segVars, chVars, fragVars, sessVars, twinVars, deepVars, guideVars, ttsVars, logVars, storeVars>>

SpecMerge == InitMerge /\ [][NextMerge]_vars

(***************************************************************************)
(* Claims about the chapter merge (checked under SpecMerge).               *)
(***************************************************************************)
\* A non-empty chapter list, ordered and gap-free, within 1..total.
IsChapterList(chapters, total) ==
    /\ chapters # <<>>
    /\ \A i \in 1..Len(chapters) :
          /\ 1 <= chapters[i].chunkStart
          /\ chapters[i].chunkStart <= chapters[i].chunkEnd
          /\ chapters[i].chunkEnd <= total
    /\ \A i \in 1..(Len(chapters) - 1) :
          chapters[i + 1].chunkStart = chapters[i].chunkEnd + 1

\* C29 as stated: mergeChaptersWithLLM never throws; no merge call is made
\* for a locally merged list at or below the threshold; above it the list
\* returned is the locally merged list unchanged, or the list of the
\* response, and then that list is non-empty, ordered, gap-free and within
\* 1..totalChunks.
ChapterMergeValidated ==
    mergePc = "done" =>
        /\ Len(mergeRaw) <= LlmMergeAbove =>
              /\ mergeResponse = NoMergeCall
              /\ mergeResult = mergeRaw
        /\ Len(mergeRaw) > LlmMergeAbove =>
              \/ mergeResult = mergeRaw
              \/ /\ mergeResponse.kind = "list"
                 /\ mergeResult = MapMerged(mergeResponse.chapters)
                 /\ IsChapterList(mergeResult, MergeDocChunks)

\* C29, amended: mergeChaptersWithLLM never throws; no merge call is made
\* for a locally merged list at or below the threshold; above it the list
\* returned is the locally merged list unchanged (on timeout, call error,
\* missing or unparsable JSON, a chapters value that is no array or is
\* empty, or a malformed entry), or else the list of the response as the
\* model wrote it: it is non-empty, and nothing else about it is validated.
ChapterMergeFallback ==
    mergePc = "done" =>
        /\ Len(mergeRaw) <= LlmMergeAbove =>
              /\ mergeResponse = NoMergeCall
              /\ mergeResult = mergeRaw
        /\ Len(mergeRaw) > LlmMergeAbove =>
              /\ mergeResponse # NoMergeCall
              /\ IF mergeResponse.kind = "list" /\ mergeResponse.chapters # <<>>
                 THEN /\ mergeResult = MapMerged(mergeResponse.chapters)
                      /\ mergeResult # <<>>
                 ELSE mergeResult = mergeRaw

\* Three chapters were merged locally and the merge call answered with two
\* chapters out of order, the first beyond the last chunk: they are what
\* mergeChaptersWithLLM returned.
ChapterMergeFallbackWitness ==
    /\ mergePc = "done"
    /\ Len(mergeRaw) = 3
    /\ mergeResponse.kind = "list"
    /\ Len(mergeResult) = 2
    /\ mergeResult[1].chunkStart > mergeResult[2].chunkStart
    /\ mergeResult[1].chunkEnd > MergeDocChunks

(***************************************************************************)
(* The rejection guidance of the done handler (lines 764-794) as a         *)
(* function of the chunk count and the covered set. A range is written as  *)
(* its text: <<n>> for "n", <<a, b>> for "a-b".                            *)
(***************************************************************************)
MaxGuideChunks == 12
DisplayedRanges == 5

\* Lines 768-769: the indices 1..total outside the covered set, ascending.
UnreadChunks(total, covered) ==
    SelectSeq([i \in 1..total |-> i], LAMBDA i : i \notin covered)

\* Lines 777 and 783: start === end ? `${start}` : `${start}-${end}`
RangeText(start, end) == IF start = end THEN <<start>> ELSE <<start, end>>

\* A loop that takes an index two above the end of the run into the run.
ContinuesRunAcrossOne(next, end) == next = end + 1 \/ next = end + 2

\* Line 775: unreadChunks[i] === end + 1
ContinuesRun(next, end) == next = end + 1

\* Lines 772-783: the loop over the unread indices and the push after it.
RECURSIVE RangeLoop(_, _, _, _, _)
RangeLoop(unread, i, start, end, ranges) ==
    IF i > Len(unread) THEN Append(ranges, RangeText(start, end))
    ELSE IF ContinuesRun(unread[i], end)
         THEN RangeLoop(unread, i + 1, start, unread[i], ranges)
         ELSE RangeLoop(unread, i + 1, unread[i], unread[i],
                        Append(ranges, RangeText(start, end)))

UnreadRanges(unread) == RangeLoop(unread, 2, unread[1], unread[1], <<>>)

\* Lines 786-788: the first ranges, and past DisplayedRanges the words
\* "等共 N 个区间" with N = ranges.length (count 0: no such words).
RangeHint(ranges) ==
    [shown |-> SubSeq(ranges, 1, MinOf(DisplayedRanges, Len(ranges))),
     count |-> IF Len(ranges) > DisplayedRanges THEN Len(ranges) ELSE 0]

\* A done() call that the handler rejects for coverage at the default
\* minimum coverage.
GuideInit ==
    /\ guidePc = "input"
    /\ guideTotal \in 1..MaxGuideChunks
    /\ guideCovered \in SUBSET (1..guideTotal)
    /\ DoneVerdict(guideTotal, Cardinality(guideCovered), minCoveragePct, 0) = "reject_coverage"
    /\ guideRanges = <<>>
    /\ guideMessage = [shown |-> <<>>, count |-> 0]

DoneRejectsCoverage ==
    /\ guidePc = "input"
    /\ guidePc' = "done"
    /\ guideRanges' = UnreadRanges(UnreadChunks(guideTotal, guideCovered))
    /\ guideMessage' = RangeHint(UnreadRanges(UnreadChunks(guideTotal, guideCovered)))
    /\ UNCHANGED <<guideTotal, guideCovered>>

InitGuide ==
    RlmIdle /\ minCoveragePct = 80 /\ GuideInit /\ SpIdle /\ SegIdle /\ ChIdle /\ FragIdle /\ SessIdle /\ TwinIdle /\ DeepIdle /\ MergeIdle /\ TtsIdle /\ LogIdle /\ StoreIdle

NextGuide ==
    DoneRejectsCoverage /\ UNCHANGED <<rlmVars, spVars, segVars, chVars, fragVars, sessVars, twinVars, deepVars, mergeVars, ttsVars, logVars, storeVars>>

SpecGuide == InitGuide /\ [][NextGuide]_vars

(***************************************************************************)
(* Claims about the rejection guidance (checked under SpecGuide).          *)
(***************************************************************************)
RangeStart(text) == text[1]
RangeEnd(text) == text[Len(text)]

\* The ranges are the maximal runs of consecutive uncovered indices,
\* ascending and pairwise disjoint, and cover the uncovered indices exactly.
RangesAreMaximalRuns ==
    LET uncovered == (1..guideTotal) \ guideCovered
    IN  /\ guideRanges # <<>>
        /\ \A k \in 1..Len(guideRanges) :
              LET r == guideRanges[k]
              IN  /\ RangeStart(r) <= RangeEnd(r)
                  /\ Len(r) = 1 <=> RangeStart(r) = RangeEnd(r)
                  /\ RangeStart(r)..RangeEnd(r) \subseteq uncovered
                  /\ (RangeStart(r) - 1) \notin uncovered
                  /\ (RangeEnd(r) + 1) \notin uncovered
        /\ \A k \in 1..(Len(guideRanges) - 1) :
              RangeEnd(guideRanges[k]) < RangeStart(guideRanges[k + 1])
        /\ UNION { RangeStart(guideRanges[k])..RangeEnd(guideRanges[k]) :
                      k \in 1..Len(guideRanges) } = uncovered

\* The message shows the first min(5, number of ranges) ranges.
FirstRangesShown ==
    /\ Len(guideMessage.shown) = MinOf(DisplayedRanges, Len(guideRanges))
    /\ \A k \in 1..Len(guideMessage.shown) : guideMessage.shown[k] = guideRanges[k]

\* C30 as stated: when done() rejects for coverage, the ranges are the
\* maximal runs of consecutive uncovered indices, ascending, disjoint, with
\* union {1..N} minus the covered set; the message lists the first
\* min(5, n) of them and, when there are more than 5, the count of the rest.
RejectionGuidanceCountsRest ==
    guidePc = "done" =>
        /\ RangesAreMaximalRuns
        /\ FirstRangesShown
        /\ guideMessage.count =
               IF Len(guideRanges) > DisplayedRanges
               THEN Len(guideRanges) - DisplayedRanges
               ELSE 0

\* C30, amended: when done() rejects for coverage, the ranges are the
\* maximal runs of consecutive uncovered indices, ascending, disjoint, with
\* union {1..N} minus the covered set; the message lists the first
\* min(5, n) of them and, when there are more than 5, the count of all the
\* ranges, those listed included.
RejectionGuidance ==
    guidePc = "done" =>
        /\ RangesAreMaximalRuns
        /\ FirstRangesShown
        /\ guideMessage.count =
               IF Len(guideRanges) > DisplayedRanges THEN Len(guideRanges) ELSE 0

\* Six runs of uncovered indices, one of several indices, the last chunk
\* among them: five are listed and the count is six.
RejectionGuidanceWitness ==
    /\ guidePc = "done"
    /\ Len(guideRanges) = 6
    /\ Len(guideMessage.shown) = 5
    /\ guideMessage.count = 6
    /\ \E k \in 1..Len(guideRanges) : Len(guideRanges[k]) = 2
    /\ RangeEnd(guideRanges[6]) = guideTotal

(***************************************************************************)
(* synthesizeLongText (POST /api/tts/episode): the segments of a long text *)
(* are synthesized one after the other, a rate-limited call is retried.    *)
(* An error is known by its message: "rate" when it includes 'rate'.       *)
(***************************************************************************)
MaxTtsSegments == 3

\* Line 203: retries < 2
RetryCeiling == 2

\* Line 205: retries * 15
WaitStepSeconds == 15

\* A catch that retries after any error.
RetriesAgainAnyError(errMsg, retries) == retries < RetryCeiling

\* Line 203: errMsg.includes('rate') && retries < 2
RetriesAgain(errMsg, retries) == errMsg = "rate" /\ retries < RetryCeiling

\* Line 205: waitSec
WaitSeconds(retries) == retries * WaitStepSeconds

\* Lines 161-193: the text is split; a text within MAX_CHARS is one piece
\* and is synthesized by a single call outside the retry loop (lines
\* 168-171), a longer one gives two segments or more.
SynthesizeStart(n) ==
    /\ ttsPc \in {"idle", "done", "thrown"}
    /\ ttsPc' = "attempt"
    /\ ttsSegments' = n
    /\ ttsIndex' = 1
    /\ ttsRetries' = 0
    /\ ttsBuffers' = <<>>
    /\ ttsAttempts' = [i \in 1..n |-> 0]
    /\ ttsWaits' = <<>>
    /\ ttsError' = "none"

\* Lines 199-212 (and 169 for a text that is not split): one call of
\* synthesizeAudio and what follows it up to the next await.
SynthesizeAudio(outcome) ==
    /\ ttsPc = "attempt"
    /\ ttsAttempts' = [ttsAttempts EXCEPT ![ttsIndex] = @ + 1]
    /\ IF outcome = "audio"
       THEN /\ ttsBuffers' = Append(ttsBuffers, ttsIndex)
            /\ ttsPc' = IF ttsIndex < ttsSegments THEN "gap" ELSE "done"
            /\ UNCHANGED <<ttsRetries, ttsWaits, ttsError>>
       ELSE IF ttsSegments > 1 /\ RetriesAgain(outcome, ttsRetries)
            THEN /\ ttsRetries' = ttsRetries + 1
                 /\ ttsWaits' = Append(ttsWaits,
                                       [segment |-> ttsIndex,
                                        attempt |-> ttsAttempts[ttsIndex] + 1,
                                        error |-> outcome,
                                        seconds |-> WaitSeconds(ttsRetries + 1)])
                 /\ ttsPc' = "waiting"
                 /\ UNCHANGED <<ttsBuffers, ttsError>>
            ELSE /\ ttsError' = outcome
                 /\ ttsPc' = "thrown"
                 /\ UNCHANGED <<ttsRetries, ttsBuffers, ttsWaits>>
    /\ UNCHANGED <<ttsSegments, ttsIndex>>

\* Line 207: the wait is over, the loop tries the segment again.
RetryWaitOver ==
    /\ ttsPc = "waiting"
    /\ ttsPc' = "attempt"
    /\ UNCHANGED <<ttsSegments, ttsIndex, ttsRetries, ttsBuffers, ttsAttempts, ttsWaits,
                   ttsError>>

\* Lines 214-217 and 196-198: the delay between segments is over, the next
\* segment starts with retries = 0.
NextSegment ==
    /\ ttsPc = "gap"
    /\ ttsPc' = "attempt"
    /\ ttsIndex' = ttsIndex + 1
    /\ ttsRetries' = 0
    /\ UNCHANGED <<ttsSegments, ttsBuffers, ttsAttempts, ttsWaits, ttsError>>

TtsFrame ==
    UNCHANGED <<rlmVars, spVars, segVars, chVars, fragVars, sessVars, twinVars, deepVars, mergeVars, guideVars, logVars, storeVars>>

InitTts ==
    TtsIdle /\ RlmIdle /\ minCoveragePct = 80 /\ SpIdle /\ SegIdle /\ ChIdle /\ FragIdle /\ SessIdle /\ TwinIdle /\ DeepIdle /\ MergeIdle /\ GuideIdle /\ LogIdle /\ StoreIdle

NextTts ==
    \/ \E n \in 1..MaxTtsSegments : SynthesizeStart(n) /\ TtsFrame
    \/ \E outcome \in {"audio", "rate", "other"} : SynthesizeAudio(outcome) /\ TtsFrame
    \/ RetryWaitOver /\ TtsFrame
    \/ NextSegment /\ TtsFrame

SpecTts == InitTts /\ [][NextTts]_vars

RequiredChunks(total, pct) == (total * pct + 99) \div 100

Covered == Cardinality(readChunksSet)

\* C1: coverage gate. Right after a done() call: with more than 10 chunks it
\* rejects for coverage whenever |covered| < ceil(N*f); with |covered| >=
\* ceil(N*f) (or with N <= 10) it accepts exactly when the output buffer
\* holds at least 100 characters and otherwise rejects for the output.
\* The example N=100, f=0.8: 79 covered is rejected, 80 is accepted.
CoverageGate ==
    /\ lastCall.tool = "done" =>
         LET need == RequiredChunks(totalChunks, minCoveragePct)
             enough == totalChunks <= 10 \/ Covered >= need
         IN  /\ (totalChunks > 10 /\ Covered < need) => lastCall.result = "reject_coverage"
             /\ (enough /\ outputLen >= MinOutputLen) => lastCall.result = "accept"
             /\ (enough /\ outputLen < MinOutputLen) => lastCall.result = "reject_output"
    /\ DoneVerdict(100, 79, 80, MinOutputLen) = "reject_coverage"
    /\ DoneVerdict(100, 80, 80, MinOutputLen) = "accept"

\* done() accepted with more than 10 chunks at exactly ceil(N*f) covered.
CoverageGateWitness ==
    /\ lastCall = [tool |-> "done", result |-> "accept"]
    /\ totalChunks > 10
    /\ Covered = RequiredChunks(totalChunks, minCoveragePct)

\* C2: a read of more than 10 chunks that returns a result without the
\* warning has |covered| >= requiredCoverage * totalChunks and an output of
\* at least 100 characters, whatever the agent did.
WarningFreeResultIsGated ==
    (rlmPc = "returned" /\ rlmResult.kind = "result" /\ ~rlmResult.warning
        /\ totalChunks > 10)
    => /\ Covered * 100 >= totalChunks * minCoveragePct
       /\ rlmResult.contentLen >= MinOutputLen

\* C9: coverage is monotone within a session. Every step keeps the covered
\* set or grows it, except the start of a read, which empties it.
CoverageMonotone ==
    [][ \/ readChunksSet \subseteq readChunksSet'
        \/ (rlmPc \in {"idle", "returned"} /\ rlmPc' \in {"running", "returned"}
              /\ readChunksSet' = {}) ]_vars

\* A tool call that names no chunk, made after chunks were covered.
CoverageMonotoneWitness ==
    /\ lastCall = [tool |-> "read_chunk", result |-> "chunk_not_found"]
    /\ Covered >= MaxSpan

\* C10: when spawn_reader returns (answer, failure or timeout), every index
\* of its argument that names a chunk is covered; read_chunk of an index
\* that names a chunk covers it.
DelegateMarksCovered ==
    [][ /\ (rlmPc = "awaiting" /\ rlmPc' = "running") =>
             \A i \in Range(pendingIndexes) : ChunkExists(i) => i \in readChunksSet'
        /\ \A i \in ReadIndexChoices(totalChunks) :
             (ReadChunk(i) /\ ChunkExists(i)) => i \in readChunksSet' ]_vars

\* A spawn_reader call that failed, with chunks of its argument covered.
DelegateMarksCoveredWitness ==
    /\ lastCall = [tool |-> "spawn_reader", result |-> "reader_error"]
    /\ Covered >= MaxSpan

\* C11: when the secondary call of spawn_reader fails or times out,
\* spawnReader returns the reader-error message as its answer, records no
\* chapter fragment, read() has not ended, and the loop is back where every
\* tool can be called.
DelegateFailureIsValue ==
    [][ (rlmPc = "awaiting" /\ rlmPc' # "awaiting" /\ lastCall'.result # "answer") =>
            /\ lastCall' = [tool |-> "spawn_reader", result |-> "reader_error"]
            /\ collectedChapterSegments' = collectedChapterSegments
            /\ rlmPc' = "running"
            /\ rlmResult' = NoResult
            /\ orchestration'.agentEnd = "none" ]_vars

\* A delegate failed after an earlier one had delivered a fragment.
DelegateFailureIsValueWitness ==
    /\ rlmPc = "running"
    /\ lastCall = [tool |-> "spawn_reader", result |-> "reader_error"]
    /\ collectedChapterSegments # <<>>

\* C12: when agent.invoke ends with the recursion-limit error, read()
\* returns a result with the output buffer as it stands, totalChunks, the
\* chapters consolidated from the fragments collected so far, and the
\* warning; a read that ended otherwise carries no warning.
RecursionLimitNonFatal ==
    /\ orchestration.agentEnd = "recursion_limit" =>
          /\ rlmPc = "returned"
          /\ rlmResult.kind = "result"
          /\ rlmResult.metadata
          /\ rlmResult.warning
          /\ rlmResult.contentLen = outputLen
          /\ rlmResult.totalChunks = totalChunks
          /\ rlmResult.chapters \in
                FinalChapterChoices(getCollectedChapters(collectedChapterSegments),
                                    totalChunks)
    /\ (rlmPc = "returned" /\ orchestration.agentEnd # "recursion_limit") =>
          ~rlmResult.warning

\* The ceiling was hit with an output saved and two fragments collected
\* that merge into one chapter.
RecursionLimitNonFatalWitness ==
    /\ orchestration.agentEnd = "recursion_limit"
    /\ outputLen > 0
    /\ Len(collectedChapterSegments) = 2
    /\ Len(rlmResult.chapters) = 1
    /\ rlmResult.chapters[1].parts = {1, 2}

\* C13: when agent.invoke ends with an error other than the recursion
\* limit, read() ends with the process-error outcome: no metadata, no
\* chapters, and the error message in place of the output buffer.
OtherErrorIsProcessFailure ==
    orchestration.agentEnd = "error" =>
        /\ rlmPc = "returned"
        /\ rlmResult.kind = "process_error"
        /\ ~rlmResult.metadata
        /\ ~rlmResult.warning
        /\ rlmResult.chapters = <<>>
        /\ rlmResult.contentLen = 0

\* The error came after an acceptable output was saved and a fragment
\* collected.
OtherErrorIsProcessFailureWitness ==
    /\ orchestration.agentEnd = "error"
    /\ outputLen >= MinOutputLen
    /\ collectedChapterSegments # <<>>

\* C14: a document of zero chunks ends read() at once with the
\* empty-document outcome: the checkpoint store is not consulted, no tool is
\* created, the agent is not invoked, and the covered set, the fragment list
\* and the output buffer are empty. No read runs on zero chunks.
EmptyInputFailsFirst ==
    /\ rlmResult.kind = "empty_document" =>
          /\ rlmPc = "returned"
          /\ totalChunks = 0
          /\ orchestration = NoOrchestration
          /\ readChunksSet = {}
          /\ collectedChapterSegments = <<>>
          /\ outputLen = 0
    /\ (rlmPc # "idle" /\ totalChunks = 0) => rlmResult.kind = "empty_document"

EmptyInputFailsFirstWitness ==
    /\ rlmPc = "returned"
    /\ rlmResult.kind = "empty_document"
    /\ lastCall = NoCall

\* The entries of an answer that have chunkStart, chunkEnd and title; none
\* unless the answer's chapters block parsed to an array.
WellFormedEntries(answer) ==
    IF answer.kind = "chapters"
    THEN SelectSeq(answer.chapters,
                   LAMBDA ch : ch.chunkStart # 0 /\ ch.chunkEnd # 0 /\ ch.title # "")
    ELSE <<>>

\* C28: whatever chapters block a delegate's answer has (none, one that is
\* not valid JSON, one that is not an array, entries lacking chunkStart,
\* chunkEnd or title), spawnReader returns the answer text; the collected
\* fragment list keeps its entries and gains the well-formed entries of the
\* answer, in their order, and no other; the covered set does not change.
LenientFragmentExtraction ==
    [][ (rlmPc = "awaiting" /\ rlmPc' = "running" /\ "answer" \in DOMAIN lastCall') =>
            LET gained == WellFormedEntries(lastCall'.answer)
            IN  /\ lastCall'.result = "answer"
                /\ Len(collectedChapterSegments') = Len(collectedChapterSegments) + Len(gained)
                /\ SubSeq(collectedChapterSegments', 1, Len(collectedChapterSegments))
                       = collectedChapterSegments
                /\ \A i \in 1..Len(gained) :
                      LET got == collectedChapterSegments'[Len(collectedChapterSegments) + i]
                      IN  /\ got.chunkStart = gained[i].chunkStart
                          /\ got.chunkEnd = gained[i].chunkEnd
                          /\ got.title = gained[i].title
                          /\ got.summary = gained[i].summary
                /\ readChunksSet' = readChunksSet
                /\ rlmResult' = rlmResult ]_vars

\* After a fragment had been collected, a delegate answered with one
\* well-formed entry between an entry lacking chunkEnd and one lacking title.
LenientFragmentExtractionWitness ==
    /\ rlmPc = "running"
    /\ "answer" \in DOMAIN lastCall
    /\ lastCall.answer.kind = "chapters"
    /\ Len(lastCall.answer.chapters) = 3
    /\ Len(collectedChapterSegments) = 2
    /\ collectedChapterSegments[1].title = "A"
    /\ collectedChapterSegments[2].title = "B"

\* C24 as stated: an accepted done() ends the read loop: after done()
\* accepted, no further tool call is executed in the session, so the output
\* buffer and the covered set read() returns are those done() accepted.
AcceptedDoneEndsLoop ==
    [][ (rlmPc = "running" /\ lastCall.tool = "done" /\ lastCall.result = "accept") =>
            /\ lastCall' = lastCall
            /\ outputLen' = outputLen
            /\ readChunksSet' = readChunksSet
            /\ (rlmPc' = "returned" /\ rlmResult'.kind = "result") =>
                  rlmResult'.contentLen = outputLen ]_vars

\* The tools of the read session that only report.
ReportingTools == {"get_document_stats", "get_chunk_list", "search_document", "get_output", "done"}

\* C33: within a read session only read_chunk and spawn_reader change the
\* covered set, only update_output changes the output buffer, which becomes
\* the text passed whatever it held, and only a spawn_reader that returns
\* adds chapter fragments; get_document_stats, get_chunk_list,
\* search_document, get_output and done change none of the three.
ReadToolsFrame ==
    [][ (rlmPc \in {"running", "awaiting"} /\ rlmPc' \in {"running", "awaiting"}) =>
            /\ readChunksSet' # readChunksSet =>
                  lastCall'.tool \in {"read_chunk", "spawn_reader"}
            /\ outputLen' # outputLen =>
                  /\ lastCall'.tool = "update_output"
                  /\ outputLen' \in OutputLenChoices
            /\ collectedChapterSegments' # collectedChapterSegments =>
                  /\ lastCall'.tool = "spawn_reader"
                  /\ rlmPc = "awaiting"
                  /\ Len(collectedChapterSegments') > Len(collectedChapterSegments)
            /\ (lastCall' # lastCall /\ lastCall'.tool \in ReportingTools) =>
                  /\ readChunksSet' = readChunksSet
                  /\ outputLen' = outputLen
                  /\ collectedChapterSegments' = collectedChapterSegments ]_vars

\* get_output was called with chunks covered, a fragment collected and an
\* output saved.
ReadToolsFrameWitness ==
    /\ rlmPc = "running"
    /\ lastCall = [tool |-> "get_output", result |-> "output"]
    /\ outputLen = MinOutputLen - 1
    /\ Covered >= 2
    /\ Len(collectedChapterSegments) = 1

\* C35: covered indices are real chunks. In every state of a read session
\* the covered set is a subset of 1..totalChunks, so its size is at most
\* totalChunks; a read_chunk or spawn_reader call adds exactly the indices
\* among its arguments that name a chunk, each once: an index that names no
\* chunk (0, negative, beyond the last chunk) or is repeated adds nothing.
CoveredAreChunks ==
    [][ /\ readChunksSet' \subseteq 1..totalChunks'
        /\ Cardinality(readChunksSet') <= totalChunks'
        /\ \A index \in ReadIndexChoices(totalChunks) :
              ReadChunk(index) =>
                 readChunksSet' = readChunksSet \cup ({index} \cap 1..totalChunks)
        /\ \A indexes \in IndexLists(totalChunks) :
              SpawnReaderCall(indexes) =>
                 /\ readChunksSet' = readChunksSet \cup (Range(indexes) \cap 1..totalChunks)
                 /\ Cardinality(readChunksSet') <=
                       Cardinality(readChunksSet)
                          + Cardinality(Range(indexes) \cap 1..totalChunks)
      ]_vars

\* spawn_reader was called with an array that repeats chunk 1 and holds a
\* negative number, on a document of one chunk: one chunk is covered.
CoveredAreChunksWitness ==
    /\ rlmPc = "awaiting"
    /\ totalChunks = 1
    /\ \E i, j \in 1..Len(pendingIndexes) : i < j /\ pendingIndexes[i] = pendingIndexes[j]
    /\ \E i \in 1..Len(pendingIndexes) : pendingIndexes[i] < 0
    /\ readChunksSet = {1}

(***************************************************************************)
(* POST /api/read/init (part_007, lines 160-300): every request replaces   *)
(* the global console.log by its own interceptor for the time it runs and  *)
(* puts back the function it found. Requests are independent stream        *)
(* callbacks: between two awaits of one request any other request may run. *)
(***************************************************************************)
\* What the uploaded form holds (lines 215-241) and what parsing yields
\* (lines 231-248).
UploadedFiles == {"none", "pdf", "txt", "other", "throws"}
ParsedContents == {"text", "empty", "throws"}

\* Lines 174-175: const originalLog = console.log; console.log = interceptor.
\* The request then awaits request.formData() (line 215).
InitRequest(i) ==
    /\ initPc[i] = "none"
    /\ originalLog' = [originalLog EXCEPT ![i] = consoleLog]
    /\ consoleLog' = i
    /\ initPc' = [initPc EXCEPT ![i] = "formData"]

\* console.log = originalLog: lines 220, 239, 246 (early returns) and 282
\* (finally, which also runs after an early return and after the catch).
RestoreLog(i) ==
    /\ consoleLog' = originalLog[i]
    /\ initPc' = [initPc EXCEPT ![i] = "closed"]
    /\ UNCHANGED originalLog

\* Lines 215-241: the form arrives; no file or an unsupported extension ends
\* the request, a rejected formData goes through catch and finally, and a
\* PDF or text file is parsed (awaits at 232-235).
FormDataReturns(i, file) ==
    /\ initPc[i] = "formData"
    /\ IF file \in {"pdf", "txt"}
       THEN /\ initPc' = [initPc EXCEPT ![i] = "parsing"]
            /\ UNCHANGED <<originalLog, consoleLog>>
       ELSE RestoreLog(i)

\* Lines 231-262: the parsed text; empty content ends the request, a failed
\* parse goes through catch and finally, otherwise initSession is awaited.
ParseReturns(i, content) ==
    /\ initPc[i] = "parsing"
    /\ IF content = "text"
       THEN /\ initPc' = [initPc EXCEPT ![i] = "initSession"]
            /\ UNCHANGED <<originalLog, consoleLog>>
       ELSE RestoreLog(i)

\* Lines 262-284: initSession resolves (setSession, the done event) or
\* rejects (catch); finally restores console.log and closes the stream.
InitSessionReturns(i, outcome) ==
    /\ initPc[i] = "initSession"
    /\ RestoreLog(i)

LogFrame == UNCHANGED <<rlmVars, spVars, segVars, chVars, fragVars, sessVars, twinVars, deepVars, mergeVars, guideVars, ttsVars, storeVars>>

InitLog ==
    LogIdle /\ RlmIdle /\ minCoveragePct = 80 /\ SpIdle /\ SegIdle /\ ChIdle /\ FragIdle /\ SessIdle /\ TwinIdle /\ DeepIdle /\ MergeIdle /\ GuideIdle /\ TtsIdle /\ StoreIdle

NextLog ==
    \/ \E i \in 1..MaxInitRequests : InitRequest(i) /\ LogFrame
    \/ \E i \in 1..MaxInitRequests, file \in UploadedFiles : FormDataReturns(i, file) /\ LogFrame
    \/ \E i \in 1..MaxInitRequests, content \in ParsedContents : ParseReturns(i, content) /\ LogFrame
    \/ \E i \in 1..MaxInitRequests, outcome \in {"session", "throws"} :
          InitSessionReturns(i, outcome) /\ LogFrame

SpecLog == InitLog /\ [][NextLog]_vars

\* C38: log interception is undone. For any interleaving of concurrent init
\* requests, once every request that started has finished, the global
\* console.log is the original function again: no request's interceptor is
\* left installed.
LogInterceptionUndone ==
    (\A i \in 1..MaxInitRequests : initPc[i] \in {"none", "closed"}) =>
        consoleLog = OriginalLog

(***************************************************************************)
(* Requests on one stored session. POST /api/read/chapter (part_007, lines *)
(* 57-144) reads the session file, runs DeepReader.processOneChapter       *)
(* (deep-reader.ts, lines 792-831) on the object it read and writes the    *)
(* object back; POST /api/tts/episode (route.ts, lines 457-465) reads the  *)
(* file, adds its result and writes it back. A request is a stream         *)
(* callback: while it awaits, any other request may run.                   *)
(*                                                                         *)
(* A chapterIndex is given as (index, whole): whole = FALSE stands for the *)
(* non-integer index + 0.5 of a JSON body.                                 *)
(***************************************************************************)
MaxSessionChapters == 2

\* Lines 77-82 of part_007: chapterIndex < 0 || chapterIndex >= length.
RouteRejects(index, n) == index < 0 \/ index >= n

\* processOneChapter, lines 797-800: session.chapters[chapterIndex].
ChapterAt(index, whole, n) == whole /\ index \in 0..(n - 1)

\* A route that persists the session whether or not the chapter succeeded.
SessionPersistedAlways(outcome) == TRUE

\* Lines 98-104 of part_007: updateSession(session) follows the awaited
\* processOneChapter inside the try block.
SessionPersisted(outcome) == outcome = "output"

\* Lines 816-817, with line 727: this.chapterSummaries is the session's own
\* array (line 804), so the summary pushed by processChapterWithAgent and
\* the one pushed by processOneChapter both land in it.
RecordCompleted(session, index) ==
    [session EXCEPT !.completedChapters = Append(@, index),
                    !.chapterSummaries = @ + 2]

\* Line 820: completedChapters.length === chapters.length.
IsLastChapter(session, n) == Len(session.completedChapters) = n

\* The init route stored a session of n chapters (part_007, line 268).
SessionStored(n) ==
    /\ sessionChapterCount = 0
    /\ sessionChapterCount' = n
    /\ UNCHANGED <<storedSession, requests, outputFile, ttsOutput, chapterDone, storeWrites>>

\* POST /api/read/chapter up to the await inside processOneChapter (line
\* 809): getSession, the range check, then processOneChapter, which throws
\* at once when there is no such chapter (the route reports chapter_error).
ChapterRequest(i, index, whole) ==
    /\ sessionChapterCount > 0
    /\ requests[i].pc = "none"
    /\ requests' = [requests EXCEPT ![i] =
          [pc |-> IF RouteRejects(index, sessionChapterCount) THEN "rejected"
                  ELSE IF ChapterAt(index, whole, sessionChapterCount) THEN "processing"
                  ELSE "failed",
           kind |-> "chapter", arg |-> index, session |-> storedSession]]
    /\ UNCHANGED <<sessionChapterCount, storedSession, outputFile, ttsOutput, chapterDone,
                   storeWrites>>

\* processChapterWithAgent resolves or rejects (a non-limit error of the
\* dispatch loop, lines 657-669). Lines 811-830 and part_007 lines 103-124
\* run without an await: append to the file, record the chapter, write the
\* TTS file when the count is reached, emit chapter_done, updateSession.
ChapterReturns(i, outcome) ==
    /\ requests[i].pc = "processing"
    /\ LET index == requests[i].arg
           session == IF outcome = "output"
                      THEN RecordCompleted(requests[i].session, index)
                      ELSE requests[i].session
           file == IF outcome = "output" THEN Append(outputFile, index) ELSE outputFile
       IN  /\ outputFile' = file
           /\ requests' = [requests EXCEPT ![i].pc = IF outcome = "output" THEN "done" ELSE "failed",
                                           ![i].session = session]
           /\ ttsOutput' = IF outcome = "output" /\ IsLastChapter(session, sessionChapterCount)
                           THEN [generated |-> TRUE, from |-> file]
                           ELSE ttsOutput
           /\ chapterDone' = IF outcome = "output" THEN chapterDone \cup {i} ELSE chapterDone
           /\ IF SessionPersisted(outcome)
              THEN /\ storedSession' = session
                   /\ storeWrites' = storeWrites + 1
              ELSE UNCHANGED <<storedSession, storeWrites>>
    /\ UNCHANGED sessionChapterCount

\* POST /api/tts/episode up to its awaits (synthesis, download): the session
\* is not read yet.
EpisodeRequest(i, key) ==
    /\ sessionChapterCount > 0
    /\ requests[i].pc = "none"
    /\ requests' = [requests EXCEPT ![i] =
          [pc |-> "synthesizing", kind |-> "tts", arg |-> key, session |-> EmptySession]]
    /\ UNCHANGED <<sessionChapterCount, storedSession, outputFile, ttsOutput, chapterDone,
                   storeWrites>>

\* route.ts, lines 457-465: getSession, ttsResults[episodeKey] = ...,
\* updateSession, with no await between them; a failed synthesis saves
\* nothing.
EpisodeReturns(i, outcome) ==
    /\ requests[i].pc = "synthesizing"
    /\ IF outcome = "audio"
       THEN LET session == [storedSession EXCEPT !.ttsResults = @ \cup {requests[i].arg}]
            IN  /\ storedSession' = session
                /\ storeWrites' = storeWrites + 1
                /\ requests' = [requests EXCEPT ![i].pc = "done", ![i].session = session]
       ELSE /\ requests' = [requests EXCEPT ![i].pc = "failed"]
            /\ UNCHANGED <<storedSession, storeWrites>>
    /\ UNCHANGED <<sessionChapterCount, outputFile, ttsOutput, chapterDone>>

StoreFrame == UNCHANGED <<rlmVars, spVars, segVars, chVars, fragVars, sessVars, twinVars, deepVars, mergeVars, guideVars, ttsVars, logVars>>

InitStore ==
    StoreIdle /\ RlmIdle /\ minCoveragePct = 80 /\ SpIdle /\ SegIdle /\ ChIdle /\ FragIdle /\ SessIdle /\ TwinIdle /\ DeepIdle /\ MergeIdle /\ GuideIdle /\ TtsIdle /\ LogIdle

NextStore ==
    \/ \E n \in 1..MaxSessionChapters : SessionStored(n) /\ StoreFrame
    \/ \E i \in 1..MaxStoreRequests, index \in -1..sessionChapterCount, whole \in BOOLEAN :
          ChapterRequest(i, index, whole) /\ StoreFrame
    \/ \E i \in 1..MaxStoreRequests, outcome \in {"output", "throws"} :
          ChapterReturns(i, outcome) /\ StoreFrame
    \/ \E i \in 1..MaxStoreRequests, key \in 0..(sessionChapterCount - 1) :
          EpisodeRequest(i, key) /\ StoreFrame
    \/ \E i \in 1..MaxStoreRequests, outcome \in {"audio", "throws"} :
          EpisodeReturns(i, outcome) /\ StoreFrame

SpecStore == InitStore /\ [][NextStore]_vars

(***************************************************************************)
(* Claims about the stored session (checked under SpecStore).              *)
(***************************************************************************)
\* C36: session completion bookkeeping. After any sequence of chapter
\* requests on a session, the same chapter processed again included,
\* completedChapters holds each chapter index at most once, and the
\* TTS-cleaned file has been written only from an output file that holds
\* every chapter of the session.
CompletionBookkeeping ==
    /\ \A a, b \in 1..Len(storedSession.completedChapters) :
          a # b => storedSession.completedChapters[a] # storedSession.completedChapters[b]
    /\ ttsOutput.generated => Range(ttsOutput.from) = 0..(sessionChapterCount - 1)

\* C37: no lost session update. For any interleaving of chapter requests
\* and episode saves on one session, the stored session holds the chapter
\* index of every chapter request that completed and the key of every
\* episode result that was saved.
NoLostSessionUpdate ==
    \A i \in 1..MaxStoreRequests :
        requests[i].pc = "done" =>
           /\ requests[i].kind = "chapter" =>
                 requests[i].arg \in Range(storedSession.completedChapters)
           /\ requests[i].kind = "tts" => requests[i].arg \in storedSession.ttsResults

\* C39: a failed chapter leaves the session unchanged. When processOneChapter
\* throws, at once for an index that names no chapter or later with the
\* error of the dispatch loop, completedChapters and chapterSummaries of the
\* session object are as they were read, nothing is appended to the output
\* file, processOneChapter emits no chapter_done, and the stored session is
\* not rewritten.
FailedChapterLeavesSession ==
    [][ \A i \in 1..MaxStoreRequests :
           (requests[i].pc \in {"none", "processing"} /\ requests'[i].pc = "failed"
               /\ requests'[i].kind = "chapter") =>
              LET before == IF requests[i].pc = "none" THEN storedSession
                            ELSE requests[i].session
              IN  /\ requests'[i].session.completedChapters = before.completedChapters
                  /\ requests'[i].session.chapterSummaries = before.chapterSummaries
                  /\ outputFile' = outputFile
                  /\ chapterDone' = chapterDone
                  /\ i \notin chapterDone'
                  /\ storedSession' = storedSession
                  /\ storeWrites' = storeWrites
      ]_vars

\* One chapter request completed and was persisted, then another failed:
\* the file holds the one chapter and the store was written once.
FailedChapterLeavesSessionWitness ==
    \E i, j \in 1..MaxStoreRequests :
        /\ requests[i].kind = "chapter" /\ requests[i].pc = "failed"
        /\ requests[i].session.completedChapters # <<>>
        /\ requests[j].kind = "chapter" /\ requests[j].pc = "done"
        /\ outputFile = <<requests[j].arg>>
        /\ storedSession.completedChapters = <<requests[j].arg>>
        /\ storeWrites = 1
        /\ chapterDone = {j}

====
